---- MODULE Spec2Model ----
(***************************************************************************)
(* Model of the AISubBrawl world server (src/server_world_db.py): the     *)
(* durable world store (users, submarines, torpedoes, fuelers), the game  *)
(* loop, whose iteration is a snapshot under WORLD_LOCK, physics outside  *)
(* the lock and a commit under WORLD_LOCK, and the control API handlers,  *)
(* each of which runs as a whole under WORLD_LOCK.                        *)
(*                                                                         *)
(* Units (the source computes in floats; the model in integers):          *)
(*   length, depth      decimetres          speed        dm/s             *)
(*   battery, fuel      1/1000 percent      health       1/100 point      *)
(*   blow_charge        1/1000              throttle     percent          *)
(*   time               quarter seconds: every loop iteration integrates *)
(*                      dt = 0.25 s, the clamp of game_loop (rates are   *)
(*                      per second, PerTick(rate) is rate * dt)          *)
(* The world is the vertical plane y = 0: a heading is +1 (east) or -1    *)
(* (west).  Rudder, planes and pitch stay at their register_sub values    *)
(* (0), so the pitch servo and the hydrodynamic lift term are absent.     *)
(***************************************************************************)
EXTENDS Integers, Sequences, FiniteSets, TLC

VARIABLES
  cfg,      \* GAME_CFG after deep_merge: the tunables the claims range over
  now,      \* time.time()
  users,    \* User rows: last_death_ts, prev_death_ts
  subs,     \* SubModel rows, a function from the ids of the existing rows
  torps,    \* TorpedoModel rows
  fuelers,  \* FuelerModel rows
  tmem,     \* non-column attributes of the loop session's torpedo objects
  pc,       \* game loop position: "snapshot" or "commit"
  snap,     \* the rows as the running iteration loaded them
  ids,      \* number of ids handed out so far, per table
  calls,    \* API calls that changed state so far
  last,     \* the operation that made the last step, and its outcome
  led,      \* ledger: rounds, torpedoes and battery debits per submarine, the
            \* owner of every id ever handed out, every event ever enqueued
  queues,   \* USER_QUEUES and USER_LAST
  pings     \* PENDING_PINGS

vars == <<cfg, now, users, subs, torps, fuelers, tmem, pc, snap, ids, calls, last, led,
          queues, pings>>

-----------------------------------------------------------------------------
(* Bounds of the model *)
MaxSubs    == 3   \* submarine ids ever handed out
MaxTorps   == 2   \* torpedo ids ever handed out
MaxFuelers == 2   \* fueler ids ever handed out
MaxCalls   == 2   \* API calls in one behaviour
MaxTicks   == 2   \* loop iterations in one behaviour

Users == {1, 2}
None  == 0 - 1    \* Python None in a numeric column
T0    == 40000    \* the clock at process start

-----------------------------------------------------------------------------
(* Program constants, in model units *)
TicksPerS        == 4       \* dt = 0.25 s: the clamp of game_loop
MaxSpeed         == 120     \* sub.max_speed 12.0 m/s
Acceleration     == 20      \* sub.acceleration 2.0 m/s^2
NeutralBias      == 8       \* sub.neutral_bias 0.008 m/s = 8/100 dm/s
MinControlSpeed  == 20      \* min_control_speed 2.0 m/s
SinkRate         == 8       \* "up to 0.8 m/s sinking"
BlowUpward       == 50      \* emergency_blow.upward_mps 5.0
BlowDecay        == 100     \* dt / duration_s (10 s): 0.1 per second
BlowRecharge     == 60      \* recharge_per_s_at_snorkel 0.06
BlowDuration     == 40      \* emergency_blow.duration_s 10.0
BlowFull         == 1000    \* blow_charge 1.0
SnorkelDepth     == 150     \* sub.snorkel_depth 15.0 m
SnorkelOffHyst   == 20      \* sub.snorkel_off_hysteresis 2.0 m
CrushDepth       == 5000    \* sub.crush_depth 500 m
CrushLossPerDm   == 3       \* crush_dps_per_100m 30: 0.03 health per dm over
BatteryFull      == 100000  \* battery 100.0 %
HealthFull       == 10000   \* health 100.0
HighSpeedMult    == 15      \* battery.high_speed_multiplier
RechargePerS     == 250     \* battery.recharge_per_s_snorkel 0.25 %/s
MaxFuelCapacity  == 1000000 \* battery.max_fuel_capacity 1000.0
RefuelRate       == 50000   \* refuel_rate_per_s 50.0
RefuelWarmup     == 480     \* refuel_timer threshold 120.0 s
RefuelRange      == 500     \* 50 m
MagazineSize     == 4       \* torpedo.magazine_size
ReloadCost       == 10000   \* torpedo.reload_battery_cost_per_torp 10.0
TorpSpeed        == 60      \* torpedo.speed 6.0
TorpMinSpeed     == 80      \* min_speed 8.0
TorpMaxSpeed     == 180     \* max_speed 18.0
TorpAccel        == 50      \* speed_accel 5.0
TorpMaxRange     == 60000   \* torpedo.max_range 6000 m
TorpDefaultRange == 10000   \* launch default range 1000 m
ArmingDelay      == 4       \* torpedo.arming_delay_s 1.0
BlastRadius      == 600     \* torpedo.blast_radius 60 m
MinSafeDistance  == 1500    \* min_safe_distance 150 m
QueueMax         == 1000    \* events a user queue holds
NoseOffset       == 120     \* NOSE_OFFSET 12 m
RingR            == 60000   \* world.ring.r 6000 m
CloudDps         == 200     \* clouds damage_dps 2.0
BatteryInitMin   == 40000   \* battery.initial_min
BatteryInitMax   == 80000   \* battery.initial_max
PingMinBattery   == 5000    \* active_power.min_battery
PingBaseCost     == 500     \* active_power.base_cost 0.5
PingCostPerDeg   == 40      \* active_power.cost_per_degree 0.04
PingBeamDefault  == 20      \* beamwidth_deg default
PingCostPerKm    == 2683    \* active_power.cost_per_100m_range 0.2683, per 1000 m
PingRangeDefault == 6000    \* sonar.active.max_range 6000 m, the default max_range
RespawnCooldown  == 28800   \* respawn_cooldown_s default 7200.0
MaxPerUser       == 2       \* sub.max_per_user
ScanCost         == 1000    \* scanner battery_cost 1.0
ScanNoise        == 32      \* scanner noise_duration_s 8.0
FuelerMaxAge     == 4800    \* 1200 s after spawn
BaseSnr          == 8000    \* passive base_snr, 1/1000 dB
SpeedNoiseGain   == 600     \* speed_noise_gain, 1/1000 dB at full speed
SnorkelBonus     == 15000   \* snorkel_bonus
BlowBonus        == 25000   \* emergency blow
ScannerBonus     == 8000    \* scanner_noise_bonus_db
SonarMaxRange    == 60000   \* active max_range, also the passive limit
BlowHearRange    == 80000   \* passive limit for a blowing target
SonarAttenuation == 3000    \* sonar_attenuation_db outside the ring
CloudAttenuation == 8000    \* clouds attenuation_db
CloseHearRange   == 4000    \* cloud_close_hear_range_m
SubSnrMin        == 5000    \* passive threshold on a submarine
TorpSnrMin       == 4000    \* passive threshold on a torpedo
TorpEarSnrMin    == 3000    \* threshold of a torpedo's passive sonar
ReportMin        == 8       \* report_interval_s, shortest (2 s)
ReportMax        == 16      \* report_interval_s, longest (4 s)
TorpSonarRange   == 20000   \* torpedo passive max_range
TorpReportMin    == 4       \* torpedo report_interval_s, shortest (1 s)
TorpReportMax    == 12      \* torpedo report_interval_s, longest (3 s)
TorpPingRange    == 15000   \* torpedo active max_range
TorpPingInterval == 12      \* ping_interval_s (3 s)
TorpPingCost     == 2000    \* active_ping_cost
TorpMinForPing   == 5000    \* min_for_ping
SoundSpeed       == 15000   \* sound_speed, dm/s
SnapshotPeriod   == 4       \* a snapshot event after more than 1 s
PingCooldown     == 20      \* ping_cooldown: 5 s
ScoreRate        == 1000    \* survival score, 1/1000 point per second
KillScore        == 100000  \* score bonus per kill, 1/1000 point
FuelerUsedAge    == 1200    \* 300 s after first use

-----------------------------------------------------------------------------
(* Helpers *)
Min(a, b) == IF a <= b THEN a ELSE b
Max(a, b) == IF a >= b THEN a ELSE b
Abs(a)    == IF a < 0 THEN -a ELSE a

\* the element of a one-element set; Only({ e(x) : x \in {v} }) is e with
\* the local variable x assigned v, computed once
Only(S) == CHOOSE r \in S : TRUE

\* a table with one more row
Insert(table, id, row) ==
  [ i \in DOMAIN table \cup {id} |-> IF i = id THEN row ELSE table[i] ]

\* the least element: rows are visited in the order they were inserted
MinOf(S) == CHOOSE a \in S : \A b \in S : a <= b

\* the elements of a set of ids, in the order query.all() returns them
RECURSIVE InOrder(_)
InOrder(S) == IF S = {} THEN << >> ELSE <<MinOf(S)>> \o InOrder(S \ {MinOf(S)})

\* rate * dt
PerTick(rate) == rate \div TicksPerS

\* clamp that forgets the lower bound
clamp_no_floor(v, lo, hi) == Min(v, hi)

\* clamp(v, lo, hi) = max(lo, min(hi, v))
clamp(v, lo, hi) == Max(lo, Min(hi, v))

\* distance(x1,y1,x2,y2) on the line y = 0
distance(x1, x2) == Abs(x2 - x1)

\* distance3d(...) <= r, by squares; operands beyond r are cut off first
Within3d(ax, az, bx, bz, r) ==
  /\ Abs(ax - bx) <= r
  /\ Abs(az - bz) <= r
  /\ (ax - bx) * (ax - bx) + (az - bz) * (az - bz) <= r * r

\* math.sqrt, rounded down (Newton's iteration from guess g)
RECURSIVE Isqrt(_, _)
Isqrt(n, g) ==
  IF g * g <= n /\ (g + 1) * (g + 1) > n THEN g
  ELSE Isqrt(n, (g + n \div g) \div 2)

\* the 3-D range sqrt(dx*dx + dy*dy + dz*dz); off the axes it is computed
\* in metres
Range3d(ax, az, bx, bz) ==
  IF az = bz THEN Abs(ax - bx)
  ELSE IF ax = bx THEN Abs(az - bz)
  ELSE 10 * Isqrt(((ax - bx) \div 10) * ((ax - bx) \div 10)
                  + ((az - bz) \div 10) * ((az - bz) \div 10),
                  Max(1, Max(Abs(ax - bx), Abs(az - bz)) \div 10))

\* is_outside_ring: the ring is centred on the origin
is_outside_ring(x) == distance(x, 0) > RingR

-----------------------------------------------------------------------------
(* Rows *)

\* SubModel(...) as register_sub builds it; fuel, refuel_*, blow_end and
\* target_depth take their column defaults
NewSub(owner, x, hdg, depth, battery) ==
  [ owner |-> owner, x |-> x, hdg |-> hdg, depth |-> depth, speed |-> 0,
    throttle |-> 20, target_depth |-> None, battery |-> battery,
    fuel |-> MaxFuelCapacity, torpedo_ammo |-> MagazineSize,
    health |-> HealthFull, is_snorkeling |-> FALSE,
    blow_active |-> FALSE, blow_charge |-> BlowFull, blow_end |-> 0,
    refuel_active |-> FALSE, refuel_fueler_id |-> None, refuel_timer |-> 0,
    scanner_noise_until |-> 0, last_report |-> 0, score |-> 0, kills |-> 0,
    target_heading |-> None ]

\* TorpedoModel(...) as launch_torpedo builds it
NewTorp(owner, parent, s, range, t) ==
  [ owner |-> owner, parent_sub |-> parent,
    x |-> s.x + s.hdg * NoseOffset, depth |-> s.depth, hdg |-> s.hdg,
    speed |-> TorpSpeed, target_speed |-> TorpSpeed,
    target_heading |-> None, control_mode |-> "wire", wire_length |-> range,
    created_at |-> t, battery |-> BatteryFull,
    passive_sonar_active |-> TRUE, last_sonar_contact |-> 0,
    active_sonar_enabled |-> FALSE, last_active_ping |-> 0 ]

\* FuelerModel(...) as _spawn_fueler_near_sub builds it, owner set by call_fueler
NewFueler(owner, x, t) ==
  [ owner |-> owner, x |-> x, depth |-> 0,
    fuel |-> MaxFuelCapacity \div 2, max_fuel |-> MaxFuelCapacity \div 2,
    spawned_at |-> t, empty_since |-> None ]

\* the non-column attributes a torpedo object has before its first update
NewTmem ==
  [ start_x |-> None, has_start |-> FALSE, battery_dead |-> FALSE,
    expired |-> FALSE, check_prox |-> FALSE, delete |-> FALSE ]

\* an SSE event: its name and, of its JSON object, "type", the observer
\* ("observer_sub_id" or "torpedo_id"), a value (damage or range) and "time".
\* Three fields are not in the payload and are kept for the properties: "sub"
\* of an explosion is the submarine hit, "by" is the sender ("loop" or the
\* handler) and "tgt" of a passive contact is what was heard: <<"sub", id>>
\* or <<"torp", id>>.  "rows" of a snapshot are the ids it lists: <<"subs",
\* "torpedoes", "fuelers">>.
Event(ev, type, sub, torp, val, t, by) ==
  [ ev |-> ev, type |-> type, sub |-> sub, torp |-> torp, val |-> val,
    time |-> t, by |-> by, tgt |-> << >>, rows |-> << >> ]

\* the snapshot of user u: "subs" and "torpedoes" are the rows of the lists
\* that u owns (ss and ts give the owner of each row), "fuelers" all fuelers
Snapshot(u, ss, ts, fs, t, by) ==
  [ Event("snapshot", "snapshot", None, None, None, t, by) EXCEPT
      !.rows = << { i \in DOMAIN ss : ss[i] = u }, { i \in DOMAIN ts : ts[i] = u }, fs >> ]

\* the entry p of pending_events, with what was heard
Heard(p, kind, id) == [ p EXCEPT !.e.tgt = <<kind, id>> ]

\* an entry of pending_events: (uid, ev, obj)
Pending(uid, e) == [ to |-> uid, e |-> e ]

\* queue.Queue(maxsize=1000) and its USER_LAST entry.  "old" counts the
\* events that were queued before the start (keep-alive snapshots nobody
\* read); "evs" are the events queued since, oldest first
NewQueue(t) == [ old |-> 0, evs |-> << >>, last |-> t ]
qsize(q) == q.old + Len(q.evs)

\* the static hazard clouds (WEATHER_CLOUDS): one cloud outside the ring
Clouds == { [x |-> 70000, radius |-> 5000, min_depth |-> 500, max_depth |-> 2000] }

\* weather_cloud_attenuation(x, y, depth)
weather_cloud_attenuation(x, depth) ==
  IF \E c \in Clouds : /\ ~(depth < c.min_depth \/ depth > c.max_depth)
                        /\ distance(x, c.x) <= c.radius
  THEN CloudAttenuation ELSE 0

\* weather_cloud_occlusion(x1, y1, d1, x2, y2, d2): a cloud whose depth band
\* overlaps the segment and whose centre is within its radius of the segment
weather_cloud_occlusion(x1, d1, x2, d2) ==
  IF \E c \in Clouds :
       /\ ~(Max(d1, d2) < c.min_depth \/ Min(d1, d2) > c.max_depth)
       /\ distance(c.x, clamp(c.x, Min(x1, x2), Max(x1, x2))) <= c.radius
  THEN CloudAttenuation ELSE 0

\* the weather terms subtracted from a sonar level between two points at
\* horizontal or 3-D range rng
weather_loss(x1, d1, x2, d2, rng) ==
  IF rng >= CloseHearRange
  THEN (IF is_outside_ring(x1) \/ is_outside_ring(x2) THEN SonarAttenuation ELSE 0)
       + Max(weather_cloud_attenuation(x1, d1), weather_cloud_attenuation(x2, d2))
       + weather_cloud_occlusion(x1, d1, x2, d2)
  ELSE 0

\* atan2(dy, dx) on the line y = 0 is 0 or pi: a target is inside a beam
\* centred on the heading iff it lies ahead (dx = 0 counts as east)
ahead(x, hdg, tx) == IF tx - x >= 0 THEN hdg = 1 ELSE hdg = 0 - 1

\* weather_cloud_damage(x, y, depth)
weather_cloud_damage(x, depth) ==
  IF ~is_outside_ring(x) THEN 0
  ELSE IF \E c \in Clouds : /\ ~(depth < c.min_depth \/ depth > c.max_depth)
                            /\ distance(x, c.x) <= c.radius
       THEN CloudDps ELSE 0

-----------------------------------------------------------------------------
(* Physics: the functions the loop applies to its session's objects *)

\* update_sub(s, dt, now): speed, vertical dynamics, position, battery drain,
\* snorkel recharge and auto-off, mooring or crush damage, weather damage
update_sub(s, t) ==
  LET max_spd      == IF s.is_snorkeling THEN (MaxSpeed * 3) \div 4 ELSE MaxSpeed
      target_speed == IF s.battery <= 0 \/ s.refuel_active THEN 0
                      ELSE (clamp(s.throttle, 0, 100) * max_spd) \div 100
      speed        == s.speed + clamp(target_speed - s.speed,
                                      -PerTick(Acceleration), PerTick(Acceleration))
      powerless    == s.battery <= 0 /\ ~s.blow_active
      target_depth == IF powerless THEN None ELSE s.target_depth
      v_neutral    == (NeutralBias * (100 - s.throttle)) \div 10000
      v_sink       == IF speed < MinControlSpeed
                      THEN ((MinControlSpeed - speed) * SinkRate) \div MinControlSpeed
                      ELSE 0
      blowing      == s.blow_active /\ t < s.blow_end /\ s.blow_charge > 0
      v_blow       == IF blowing THEN -BlowUpward ELSE 0
      charge1      == IF blowing THEN clamp(s.blow_charge - PerTick(BlowDecay), 0, BlowFull)
                      ELSE s.blow_charge
      v_hold       == IF target_depth # None
                      THEN clamp(((target_depth - s.depth) * 2) \div 100, -15, 15)
                      ELSE 0
      depth1       == Max(0, s.depth + PerTick(v_neutral + v_sink + v_blow + v_hold))
      x1           == s.x + s.hdg * PerTick(speed)
      excess       == 2 * speed - max_spd
      drain        == IF s.refuel_active THEN 0
                      ELSE IF excess > 0
                      THEN PerTick(s.throttle
                                   + (s.throttle * HighSpeedMult * excess * excess)
                                       \div (max_spd * max_spd))
                      ELSE PerTick(s.throttle)
      throttle1    == IF s.refuel_active THEN 0 ELSE s.throttle
      battery1     == Max(0, Min(BatteryFull, s.battery - drain))
      at_snorkel   == s.is_snorkeling /\ depth1 <= SnorkelDepth
      has_fuel     == s.fuel > 0
      delta        == IF at_snorkel /\ has_fuel
                      THEN Max(0, Min(PerTick(RechargePerS), Min(s.fuel, BatteryFull - battery1)))
                      ELSE 0
      battery2     == IF delta > 0 THEN clamp(battery1 + delta, 0, BatteryFull) ELSE battery1
      fuel1        == IF delta > 0 THEN Max(0, s.fuel - delta) ELSE s.fuel
      charge2      == IF at_snorkel /\ has_fuel
                      THEN clamp(charge1 + PerTick(BlowRecharge), 0, BlowFull) ELSE charge1
      snorkel1     == IF ~s.refuel_active /\ s.is_snorkeling
                         /\ depth1 > SnorkelDepth + SnorkelOffHyst
                      THEN FALSE ELSE s.is_snorkeling
      depth2       == IF s.refuel_active THEN Max(0, SnorkelDepth) ELSE depth1
      health1      == IF ~s.refuel_active /\ depth1 > CrushDepth
                      THEN Max(0, s.health - PerTick((depth1 - CrushDepth) * CrushLossPerDm))
                      ELSE s.health
      cloud_dps    == IF is_outside_ring(x1) THEN weather_cloud_damage(x1, depth2) ELSE 0
      health2      == IF cloud_dps > 0 THEN Max(0, health1 - PerTick(cloud_dps)) ELSE health1
  IN  [ s EXCEPT !.speed = speed, !.target_depth = target_depth,
                 !.blow_active = blowing, !.blow_charge = charge2,
                 !.depth = depth2, !.x = x1, !.throttle = throttle1,
                 !.battery = battery2, !.fuel = fuel1,
                 !.is_snorkeling = snorkel1, !.health = health2 ]

\* update_torpedo(t, dt, now): tr is the row, m its non-column attributes,
\* ss the loop session's submarines (the parent lookup reads the identity map)
update_torpedo(tr, m, ss, t) ==
  LET target_speed == clamp(tr.target_speed, TorpMinSpeed, TorpMaxSpeed)
      speed        == tr.speed + clamp(target_speed - tr.speed,
                                       -PerTick(TorpAccel), PerTick(TorpAccel))
      start_x      == IF m.has_start THEN m.start_x ELSE tr.x
      wire_len     == IF tr.wire_length # 0 THEN tr.wire_length ELSE TorpMaxRange
      cut          == /\ tr.control_mode = "wire"
                      /\ tr.parent_sub \in DOMAIN ss
                      /\ distance(tr.x, ss[tr.parent_sub].x) > wire_len
      mode         == IF cut THEN "free" ELSE tr.control_mode
      x1           == tr.x + tr.hdg * PerTick(speed)
      battery1     == Max(0, tr.battery - PerTick((3 * speed * speed) \div 200))
      dies         == battery1 <= 0 /\ ~m.battery_dead
      expired      == distance(x1, start_x) > TorpMaxRange
      row          == [ tr EXCEPT !.speed = IF dies THEN 0 ELSE speed,
                                  !.target_speed = IF dies THEN 0 ELSE tr.target_speed,
                                  !.control_mode = mode, !.x = x1,
                                  !.battery = battery1,
                                  !.passive_sonar_active = IF dies THEN FALSE ELSE @,
                                  !.active_sonar_enabled = IF dies THEN FALSE ELSE @ ]
      mem          == [ m EXCEPT !.start_x = start_x, !.has_start = TRUE,
                                 !.battery_dead = m.battery_dead \/ dies,
                                 !.expired = m.expired \/ expired,
                                 !.check_prox =
                                    IF expired THEN m.check_prox
                                    ELSE /\ cfg.proximity_fuze_m > 0
                                         /\ t - tr.created_at >= ArmingDelay ]
  IN  [row |-> row, mem |-> mem]

\* the rows of a table in query.all() order (insertion order: ascending id)
\* squared 3-D distance, for operands already known to be close
Dist2(ax, az, bx, bz) == (ax - bx) * (ax - bx) + (az - bz) * (az - bz)

\* process_refueling_mem, the body of "for s in subs" for one submarine;
\* w is the loop session: its submarines and fuelers
cancel_refuel(s) ==
  [ s EXCEPT !.refuel_timer = 0, !.refuel_active = FALSE, !.refuel_fueler_id = None ]

\* a transfer that is not limited by what the fueler has left
refuel_one_unmetered(w, sid, t) ==
  LET s     == w.subs[sid]
      cand  == { f \in DOMAIN w.fuelers :
                   /\ ~(s.refuel_fueler_id # None /\ f # s.refuel_fueler_id)
                   /\ w.fuelers[f].fuel > 0
                   /\ Within3d(s.x, s.depth, w.fuelers[f].x, w.fuelers[f].depth, RefuelRange) }
      d2(f) == Dist2(s.x, s.depth, w.fuelers[f].x, w.fuelers[f].depth)
      best  == { f \in cand : \A g \in cand : d2(f) <= d2(g) }
      near  == MinOf(best)
      timer == s.refuel_timer + 1
      avail == w.fuelers[near].fuel
      space == Max(0, MaxFuelCapacity - s.fuel)
      amount == IF avail > 0 /\ space > 0
                THEN Min(PerTick(RefuelRate), space) ELSE 0
      f1    == IF amount > 0
               THEN [ w.fuelers[near] EXCEPT
                        !.fuel = Max(0, avail - amount),
                        !.empty_since = IF @ = None THEN t ELSE @ ]
               ELSE w.fuelers[near]
      s1    == [ s EXCEPT !.refuel_timer = timer, !.fuel = s.fuel + amount ]
      s2    == IF s1.fuel >= MaxFuelCapacity \/ f1.fuel <= 0
               THEN [ s1 EXCEPT !.refuel_active = FALSE, !.refuel_fueler_id = None,
                                !.refuel_timer = 0 ]
               ELSE s1
  IN  IF ~s.refuel_active
        THEN [ w EXCEPT !.subs[sid].refuel_timer = 0 ]
      ELSE IF s.fuel >= MaxFuelCapacity
        THEN [ w EXCEPT !.subs[sid] = cancel_refuel(s) ]
      ELSE IF ~s.is_snorkeling \/ s.depth > SnorkelDepth + 5
        THEN [ w EXCEPT !.subs[sid] = cancel_refuel(s) ]
      ELSE IF cand = {}
        THEN [ w EXCEPT !.subs[sid] = cancel_refuel(s) ]
      ELSE IF timer < RefuelWarmup
        THEN [ w EXCEPT !.subs[sid].refuel_timer = timer ]
      ELSE [ w EXCEPT !.subs[sid] = s2, !.fuelers[near] = f1 ]

\* process_refueling_mem, the body of "for s in subs" from the lookup of
\* the fueler on
refuel_one(w, sid, t) ==
  LET s     == w.subs[sid]
      cand  == { f \in DOMAIN w.fuelers :
                   /\ ~(s.refuel_fueler_id # None /\ f # s.refuel_fueler_id)
                   /\ w.fuelers[f].fuel > 0
                   /\ Within3d(s.x, s.depth, w.fuelers[f].x, w.fuelers[f].depth, RefuelRange) }
      d2(f) == Dist2(s.x, s.depth, w.fuelers[f].x, w.fuelers[f].depth)
      best  == { f \in cand : \A g \in cand : d2(f) <= d2(g) }
      near  == MinOf(best)
      timer == s.refuel_timer + 1
      avail == w.fuelers[near].fuel
      space == Max(0, MaxFuelCapacity - s.fuel)
      amount == IF avail > 0 /\ space > 0
                THEN Min(PerTick(RefuelRate), Min(avail, space)) ELSE 0
      f1    == IF amount > 0
               THEN [ w.fuelers[near] EXCEPT
                        !.fuel = Max(0, avail - amount),
                        !.empty_since = IF @ = None THEN t ELSE @ ]
               ELSE w.fuelers[near]
      s1    == [ s EXCEPT !.refuel_timer = timer, !.fuel = s.fuel + amount ]
      s2    == IF s1.fuel >= MaxFuelCapacity \/ f1.fuel <= 0
               THEN [ s1 EXCEPT !.refuel_active = FALSE, !.refuel_fueler_id = None,
                                !.refuel_timer = 0 ]
               ELSE s1
  IN  IF ~s.refuel_active
        THEN [ w EXCEPT !.subs[sid].refuel_timer = 0 ]
      ELSE IF s.fuel >= MaxFuelCapacity
        THEN [ w EXCEPT !.subs[sid] = cancel_refuel(s) ]
      ELSE IF ~s.is_snorkeling \/ s.depth > SnorkelDepth + 5
        THEN [ w EXCEPT !.subs[sid] = cancel_refuel(s) ]
      ELSE IF cand = {}
        THEN [ w EXCEPT !.subs[sid] = cancel_refuel(s) ]
      ELSE IF timer < RefuelWarmup
        THEN [ w EXCEPT !.subs[sid].refuel_timer = timer ]
      ELSE [ w EXCEPT !.subs[sid] = s2, !.fuelers[near] = f1 ]

RECURSIVE refuel_loop(_, _, _)
refuel_loop(w, todo, t) ==
  IF todo = {} THEN w
  ELSE Only({ refuel_loop(w1, todo \ {MinOf(todo)}, t) :
                w1 \in { refuel_one(w, MinOf(todo), t) } })

\* process_refueling_mem(subs, fuelers, dt)
process_refueling_mem(w, t) ==
  IF DOMAIN w.fuelers = {}
  THEN [ w EXCEPT !.subs = [ i \in DOMAIN w.subs |-> [ w.subs[i] EXCEPT !.refuel_timer = 0 ] ] ]
  ELSE refuel_loop(w, DOMAIN w.subs, t)

\* a wire check that restores the wire of a torpedo back within wire_length
process_wire_links_mem_relink(ts, ss) ==
  [ i \in DOMAIN ts |->
      IF ts[i].parent_sub \notin DOMAIN ss
        THEN [ ts[i] EXCEPT !.control_mode = "free" ]
      ELSE IF distance(ts[i].x, ss[ts[i].parent_sub].x)
                > (IF ts[i].wire_length # 0 THEN ts[i].wire_length ELSE TorpMaxRange)
        THEN [ ts[i] EXCEPT !.control_mode = "free" ]
      ELSE [ ts[i] EXCEPT !.control_mode = "wire" ] ]

\* process_wire_links_mem(torps, subs)
process_wire_links_mem(ts, ss) ==
  [ i \in DOMAIN ts |->
      IF ts[i].control_mode # "wire" THEN ts[i]
      ELSE IF ts[i].parent_sub \notin DOMAIN ss
        THEN [ ts[i] EXCEPT !.control_mode = "free" ]
      ELSE IF distance(ts[i].x, ss[ts[i].parent_sub].x)
                > (IF ts[i].wire_length # 0 THEN ts[i].wire_length ELSE TorpMaxRange)
        THEN [ ts[i] EXCEPT !.control_mode = "free" ]
      ELSE ts[i] ]

\* graduated damage whose tiers exclude their outer boundary
blast_damage_open(tx, tz, sx, sz) ==
  IF Dist2(tx, tz, sx, sz) < 600 * 600 THEN 10000
  ELSE IF Dist2(tx, tz, sx, sz) < 800 * 800 THEN 7500
  ELSE IF Dist2(tx, tz, sx, sz) < 1000 * 1000 THEN 5000
  ELSE 2500

\* the graduated damage of a detonation at 3-D distance <= blast
blast_damage(tx, tz, sx, sz) ==
  IF Within3d(tx, tz, sx, sz, 600) THEN 10000
  ELSE IF Within3d(tx, tz, sx, sz, 800) THEN 7500
  ELSE IF Within3d(tx, tz, sx, sz, 1000) THEN 5000
  ELSE 2500

\* explode_torpedo_in_mem: the living submarines within the blast radius
blast_hits(tr, ss) ==
  { i \in DOMAIN ss :
      /\ Within3d(tr.x, tr.depth, ss[i].x, ss[i].depth, cfg.blast_radius)
      /\ ss[i].health > 0 }

\* explode_torpedo_in_mem: the submarines this hit kills
blast_kills(tr, ss) ==
  { i \in blast_hits(tr, ss) :
      ss[i].health - blast_damage(tr.x, tr.depth, ss[i].x, ss[i].depth) <= 0 }

\* explode_torpedo_in_mem: killer_sub, the first submarine of the torpedo's
\* owner in the list (None when the owner has none)
killer_sub(tr, ss) ==
  IF \E i \in DOMAIN ss : ss[i].owner = tr.owner
  THEN MinOf({ i \in DOMAIN ss : ss[i].owner = tr.owner }) ELSE None

\* explode_torpedo_in_mem(t, subs, pending_events): the health of every
\* living submarine within the blast radius drops by the graduated damage,
\* every kill is credited to killer_sub, and every hit appends an explosion
\* event for the owner of the submarine hit
explode_torpedo_in_mem(tid, tr, ss, t) ==
  LET hit    == blast_hits(tr, ss)
      n      == Cardinality(blast_kills(tr, ss))
      killer == killer_sub(tr, ss)
      order  == InOrder(hit)
  IN  [ subs |->
          [ i \in DOMAIN ss |->
              [ ss[i] EXCEPT
                  !.health = IF i \in hit
                             THEN Max(0, @ - blast_damage(tr.x, tr.depth, ss[i].x, ss[i].depth))
                             ELSE @,
                  !.kills = IF i = killer THEN @ + n ELSE @,
                  !.score = IF i = killer THEN @ + n * KillScore ELSE @ ] ],
        evs |->
          [ k \in 1..Len(order) |->
              Pending(ss[order[k]].owner,
                      Event("explosion", "explosion", order[k], tid,
                            blast_damage(tr.x, tr.depth, ss[order[k]].x, ss[order[k]].depth),
                            t, "loop")) ] ]

\* process_explosions_mem, the body of "for t in torps" for one torpedo;
\* w is the loop session: subs, torps and the torpedoes' attributes (mem)
too_close_to_parent(tr, ss) ==
  /\ tr.parent_sub \in DOMAIN ss
  /\ Abs(tr.x - ss[tr.parent_sub].x) < MinSafeDistance
  /\ Abs(tr.depth - ss[tr.parent_sub].depth) < MinSafeDistance
  /\ Dist2(tr.x, tr.depth, ss[tr.parent_sub].x, ss[tr.parent_sub].depth)
       < MinSafeDistance * MinSafeDistance

\* what one detonation did, for the record: which torpedo, why, and whether
\* it lowered the health of its parent while the parent was within 150 m
blast_record(tid, kind, tr, ss) ==
  [ torp |-> tid, kind |-> kind, owner |-> tr.owner,
    hit |-> blast_hits(tr, ss), killed |-> blast_kills(tr, ss),
    parent_hurt |-> /\ too_close_to_parent(tr, ss)
                    /\ tr.parent_sub \in blast_hits(tr, ss) ]

fuze_fires(tr, ss) ==
  \E i \in DOMAIN ss :
     /\ ss[i].health > 0
     /\ Within3d(tr.x, tr.depth, ss[i].x, ss[i].depth, cfg.proximity_fuze_m)

\* an explosion pass without the terminal detonation of a flat battery
explode_one_no_terminal(w, tid, t) ==
  IF w.mem[tid].expired THEN [ w EXCEPT !.mem[tid].delete = TRUE ] ELSE w

\* process_explosions_mem, the body of "for t in torps" for one torpedo
explode_one(w, tid, t) ==
  LET tr == w.torps[tid]
      m  == w.mem[tid]
      blown(kind) ==
        Only({ [ w EXCEPT !.subs = x.subs,
                          !.pending = @ \o x.evs,
                          !.mem[tid].delete = TRUE,
                          !.blasts = @ \cup {blast_record(tid, kind, tr, w.subs)} ] :
               x \in { explode_torpedo_in_mem(tid, tr, w.subs, t) } })
  IN  IF m.battery_dead /\ ~m.delete
        THEN blown("battery")
      ELSE IF m.expired
        THEN [ w EXCEPT !.mem[tid].delete = TRUE ]
      ELSE IF m.check_prox /\ ~too_close_to_parent(tr, w.subs) /\ fuze_fires(tr, w.subs)
        THEN blown("fuze")
      ELSE w

RECURSIVE explode_loop(_, _, _)
explode_loop(w, todo, t) ==
  IF todo = {} THEN w
  ELSE Only({ explode_loop(w1, todo \ {MinOf(todo)}, t) :
                w1 \in { explode_one(w, MinOf(todo), t) } })

\* process_explosions_mem(torps, subs, pending_events)
process_explosions_mem(w, t) == explode_loop(w, DOMAIN w.torps, t)

\* schedule_passive_contacts, "Check submarines": the targets obs hears
hears_sub(obs, tgt, t) ==
  LET rng  == distance(obs.x, tgt.x)
      base == BaseSnr + (SpeedNoiseGain * tgt.speed) \div MaxSpeed
              + (IF tgt.is_snorkeling THEN SnorkelBonus ELSE 0)
              + (IF tgt.blow_active THEN BlowBonus ELSE 0)
              + (IF t < tgt.scanner_noise_until THEN ScannerBonus ELSE 0)
      snr  == base - rng \div 5 - tgt.depth \div 2
              - weather_loss(obs.x, obs.depth, tgt.x, tgt.depth, rng)
  IN  [ ok  |-> /\ ~(rng > (IF tgt.blow_active THEN BlowHearRange ELSE SonarMaxRange))
                /\ ~(snr < SubSnrMin),
        snr |-> snr ]

\* schedule_passive_contacts, "Check torpedoes"
hears_torp(obs, tr) ==
  LET rng == distance(obs.x, tr.x)
      snr == (BaseSnr * 12) \div 10 + (SpeedNoiseGain * tr.speed * 2) \div TorpSpeed
             - rng \div 4 - tr.depth \div 2
             - weather_loss(obs.x, obs.depth, tr.x, tr.depth, rng)
  IN  [ ok  |-> /\ ~(rng > (SonarMaxRange * 8) \div 10)
                /\ ~(snr < TorpSnrMin),
        snr |-> snr ]

\* schedule_passive_contacts, "Process torpedo passive sonar"
torp_hears(tr, tgt) ==
  LET rng == distance(tr.x, tgt.x)
      snr == BaseSnr + (SpeedNoiseGain * tgt.speed) \div MaxSpeed
             + (IF tgt.is_snorkeling THEN SnorkelBonus ELSE 0)
             + (IF tgt.blow_active THEN BlowBonus ELSE 0)
             - rng \div 5 - tgt.depth \div 2
             - weather_loss(tr.x, tr.depth, tgt.x, tgt.depth, rng)
  IN  [ ok  |-> /\ ~(rng > TorpSonarRange)
                /\ ahead(tr.x, tr.hdg, tgt.x)
                /\ ~(snr < TorpEarSnrMin),
        snr |-> snr ]

\* a 'contact' event addressed to the owner of the first submarine of the
\* list instead of the observer's owner
contact_event_to_first(ss, o, snr, t) ==
  Pending(ss[MinOf(DOMAIN ss)].owner, Event("contact", "passive", o, None, snr, t, "loop"))

\* the 'contact' event of an observing submarine
contact_event(ss, o, snr, t) ==
  Pending(ss[o].owner, Event("contact", "passive", o, None, snr, t, "loop"))

\* schedule_passive_contacts, the body of "for obs in subs" for observer o:
\* the first submarine heard, then the first torpedo of another owner heard;
\* roll is the draw of random.uniform(*report_interval_s)
contacts_of(ss, ts, o, t, roll) ==
  LET heard  == { i \in DOMAIN ss \ {o} : hears_sub(ss[o], ss[i], t).ok }
      theard == { j \in DOMAIN ts : /\ ts[j].owner # ss[o].owner
                                     /\ hears_torp(ss[o], ts[j]).ok }
  IN  IF t - ss[o].last_report < roll THEN << >>
      ELSE (IF heard = {} THEN << >>
            ELSE << Heard(contact_event(ss, o, hears_sub(ss[o], ss[MinOf(heard)], t).snr, t),
                          "sub", MinOf(heard)) >>)
           \o
           (IF theard = {} THEN << >>
            ELSE << Heard(contact_event(ss, o, hears_torp(ss[o], ts[MinOf(theard)]).snr, t),
                          "torp", MinOf(theard)) >>)

\* the 'torpedo_contact' event of torpedo j, if its passive sonar reports
torp_contacts_of(ss, ts, j, t, roll) ==
  LET heard == { i \in DOMAIN ss : /\ ss[i].owner # ts[j].owner
                                    /\ torp_hears(ts[j], ss[i]).ok }
  IN  IF ~ts[j].passive_sonar_active \/ t - ts[j].last_sonar_contact < roll
           \/ heard = {}
      THEN << >>
      ELSE << Heard(Pending(ts[j].owner,
                            Event("torpedo_contact", "passive", None, j,
                                  torp_hears(ts[j], ss[MinOf(heard)]).snr, t, "loop")),
                    "sub", MinOf(heard)) >>

\* "Process torpedo active sonar (auto-ping)": torpedo j pings now
torp_pings(tr, t) ==
  /\ tr.active_sonar_enabled
  /\ ~(t - tr.last_active_ping < TorpPingInterval)
  /\ ~(tr.battery < Max(TorpPingCost, TorpMinForPing))

\* the submarines an auto-ping of torpedo tr returns
torp_ping_contacts(ss, tr) ==
  { i \in DOMAIN ss : /\ ss[i].owner # tr.owner
                       /\ Within3d(tr.x, tr.depth, ss[i].x, ss[i].depth, TorpPingRange)
                       /\ ahead(tr.x, tr.hdg, ss[i].x) }

\* the concatenation of f[ids[1]], f[ids[2]], ...
RECURSIVE Flatten(_, _)
Flatten(f, order) ==
  IF order = << >> THEN << >> ELSE f[Head(order)] \o Flatten(f, Tail(order))

\* schedule_passive_contacts(now, subs, torps, pending_events); roll holds
\* the two random report intervals
schedule_passive_contacts(w, t, roll) ==
  LET sc == [ o \in DOMAIN w.subs |-> contacts_of(w.subs, w.torps, o, t, roll.sub) ]
      tc == [ j \in DOMAIN w.torps |-> torp_contacts_of(w.subs, w.torps, j, t, roll.torp) ]
      tp == [ j \in DOMAIN w.torps |->
                IF torp_pings(w.torps[j], t) /\ torp_ping_contacts(w.subs, w.torps[j]) # {}
                THEN << Pending(w.torps[j].owner,
                                Event("torpedo_ping", "active", None, j,
                                      Cardinality(torp_ping_contacts(w.subs, w.torps[j])),
                                      t, "loop")) >>
                ELSE << >> ]
  IN  [ w EXCEPT
          !.subs = [ o \in DOMAIN w.subs |->
                       IF sc[o] # << >> THEN [ w.subs[o] EXCEPT !.last_report = t ]
                       ELSE w.subs[o] ],
          !.torps = [ j \in DOMAIN w.torps |->
                        [ w.torps[j] EXCEPT
                            !.last_sonar_contact = IF tc[j] # << >> THEN t ELSE @,
                            !.last_active_ping =
                               IF torp_pings(w.torps[j], t) THEN t ELSE @,
                            !.battery = IF tp[j] # << >>
                                        THEN Max(0, @ - TorpPingCost) ELSE @ ] ],
          !.pending = @ \o Flatten(sc, InOrder(DOMAIN w.subs))
                        \o Flatten(tc, InOrder(DOMAIN w.torps))
                        \o Flatten(tp, InOrder(DOMAIN w.torps)) ]

-----------------------------------------------------------------------------
(* The game loop *)

\* the submarines whose health was 0 when the iteration loaded them
dead_sub_ids(ss) == { i \in DOMAIN ss : ss[i].health <= 0 }

\* the survival score of one iteration: base_rate * (1 + 0.5 * kills) * dt
survival_score(s) ==
  [ s EXCEPT !.score = @ + PerTick(ScoreRate + (ScoreRate \div 2) * Max(0, s.kills)) ]

\* step 2 of game_loop, first half: update_sub for every living submarine,
\* then update_torpedo for every torpedo (row and non-column attributes)
moved(sn, mem0, t) ==
  Only({ [ subs |-> ss1,
           up   |-> [ i \in DOMAIN sn.torps |->
                        update_torpedo(sn.torps[i],
                                       IF i \in DOMAIN mem0 THEN mem0[i] ELSE NewTmem,
                                       ss1, t) ] ] :
         ss1 \in { [ i \in DOMAIN sn.subs |->
                       IF sn.subs[i].health <= 0 THEN sn.subs[i]
                       ELSE update_sub(survival_score(sn.subs[i]), t) ] } })

\* step 2 of game_loop on the loaded rows: the updates, then refuelling,
\* wire links and explosions
exploded(sn, mem0, t) ==
  Only({ Only({ process_explosions_mem(
                  [ subs |-> w1.subs, fuelers |-> w1.fuelers,
                    torps |-> process_wire_links_mem(
                                [ i \in DOMAIN m.up |-> m.up[i].row ], w1.subs),
                    mem |-> [ i \in DOMAIN m.up |-> m.up[i].mem ],
                    blasts |-> {}, pending |-> << >> ], t) :
                w1 \in { process_refueling_mem(
                           [ subs |-> m.subs, fuelers |-> sn.fuelers ], t) } }) :
         m \in { moved(sn, mem0, t) } })

\* step 2 of game_loop up to schedule_passive_contacts: the session's
\* objects and pending_events as the commit finds them
physics(sn, mem0, t, roll) ==
  Only({ schedule_passive_contacts(w2, t, roll) : w2 \in { exploded(sn, mem0, t) } })

\* USER_QUEUES with the record of what was ever put on each queue: m.qs are
\* the queues, m.log[u] the events enqueued for user u since the start
\* _uq(user_id): the queue is created on first use
uq(qs, u, t) == IF u \in DOMAIN qs THEN qs ELSE Insert(qs, u, NewQueue(t))

\* a put on a queue without maxsize
send_private_unbounded(m, u, e, t) ==
  [ qs  |-> [ uq(m.qs, u, t) EXCEPT ![u].evs = Append(@, e) ],
    log |-> [ m.log EXCEPT ![u] = Append(@, e) ] ]

\* send_private(user_id, event, obj): put_nowait, queue.Full is swallowed
send_private(m, u, e, t) ==
  IF u \in DOMAIN m.qs /\ qsize(m.qs[u]) >= QueueMax THEN m
  ELSE [ qs  |-> [ uq(m.qs, u, t) EXCEPT ![u].evs = Append(@, e) ],
         log |-> [ m.log EXCEPT ![u] = Append(@, e) ] ]

\* "for uid, ev, obj in pending_events: send_private(uid, ev, obj)"
RECURSIVE fan_out(_, _, _)
fan_out(m, pend, t) ==
  IF pend = << >> THEN m
  ELSE Only({ fan_out(m1, Tail(pend), t) :
                m1 \in { send_private(m, Head(pend).to, Head(pend).e, t) } })

\* an echo resolution that does not wait for the eta
due_echoes_early(ps, t) ==
  [ k \in 1..Len(ps) |->
      Pending(ps[k].observer_user_id,
              Event("echo", "active", ps[k].observer_sub_id, None, ps[k].rng, t, "loop")) ]

\* process_active_pings(now): the 'echo' events of the pending echoes due
due_echoes(ps, t) ==
  LET due == SelectSeq(ps, LAMBDA p : p.eta <= t)
  IN  [ k \in 1..Len(due) |->
          Pending(due[k].observer_user_id,
                  Event("echo", "active", due[k].observer_sub_id, None,
                        due[k].rng, t, "loop")) ]

\* send_snapshot_mem(uid, subs, torps) for every queue whose last snapshot
\* is over 1 s old.  lists are the loop's subs and torps (the owner of each
\* object) and the fuelers of the store.  After a rollback the objects are
\* expired, and the objects of the rows that are gone cannot be loaded
\* again: the first send_snapshot_mem raises and the iteration ends
send_snapshots(m, lists, t) ==
  LET late == { u \in DOMAIN m.qs : t - m.qs[u].last > SnapshotPeriod }
      sent == { u \in late : qsize(m.qs[u]) < QueueMax }
      e(u) == Snapshot(u, lists.subs, lists.torps, lists.fuelers, t, "loop")
  IN  IF ~lists.readable THEN m
      ELSE
      [ qs  |-> [ u \in DOMAIN m.qs |->
                    [ m.qs[u] EXCEPT
                        !.last = IF u \in late THEN t ELSE @,
                        !.evs  = IF u \in sent THEN Append(@, e(u)) ELSE @ ] ],
        log |-> [ u \in DOMAIN m.log |->
                    IF u \in sent THEN Append(m.log[u], e(u)) ELSE m.log[u] ] ]

\* the events of one iteration in the order they reach the queues: the
\* echoes (process_active_pings sends them during step 2), then
\* pending_events and the snapshots (step 4)
tick_mail(m, ps, pend, lists, t) ==
  Only({ Only({ send_snapshots(m2, lists, t) : m2 \in { fan_out(m1, pend, t) } }) :
         m1 \in { fan_out(m, due_echoes(ps, t), t) } })

\* the flush of one session object: the unit of work writes the columns whose
\* value differs from the loaded one (the objects are mutated in place, so
\* db.session.get returns the object itself and _apply_fields copies nothing)
flush_row(stored, loaded, object) ==
  [ f \in DOMAIN stored |-> IF object[f] # loaded[f] THEN object[f] ELSE stored[f] ]

\* the death timestamps after the dead submarines of user u are deleted
shift_death_ts(urow, n, t) ==
  IF n = 0 THEN urow
  ELSE IF n = 1 THEN [ last_death_ts |-> t, prev_death_ts |-> urow.last_death_ts ]
  ELSE [ last_death_ts |-> t, prev_death_ts |-> t ]

\* a despawn rule that looks at the age of the fueler only
fueler_expired_by_age(f, t) == t - f.spawned_at > FuelerMaxAge

\* a fueler the commit despawns
fueler_expired(f, t) ==
  \/ t - f.spawned_at > FuelerMaxAge
  \/ f.empty_since # None /\ t - f.empty_since > FuelerUsedAge

\* the commit raises StaleDataError when it updates a row that an API call
\* deleted since the snapshot (a DELETE of a missing row only warns)
commit_is_stale(w) ==
  \E i \in DOMAIN w.torps :
     i \notin DOMAIN torps /\ ~(w.mem[i].delete \/ w.mem[i].expired)

\* the durable store
Store == [ users |-> users, subs |-> subs, torps |-> torps, fuelers |-> fuelers ]

\* game_loop, step 3 when the flush succeeds: the dead submarines, the
\* marked torpedoes and the old fuelers are deleted, the death timestamps
\* shifted and the changed columns of the other rows written
flushed(w, t) ==
  LET dead  == dead_sub_ids(snap.subs)
      gone  == { i \in DOMAIN w.torps : w.mem[i].delete \/ w.mem[i].expired }
      fgone == { i \in DOMAIN w.fuelers : fueler_expired(w.fuelers[i], t) }
  IN  [ subs |-> [ i \in DOMAIN subs \ dead |->
                     IF i \in DOMAIN snap.subs
                     THEN flush_row(subs[i], snap.subs[i], w.subs[i])
                     ELSE subs[i] ],
        users |-> [ u \in Users |->
                      shift_death_ts(users[u],
                        Cardinality({ i \in dead : snap.subs[i].owner = u }), t) ],
        torps |-> [ i \in DOMAIN torps \ gone |->
                      IF i \in DOMAIN snap.torps
                      THEN flush_row(torps[i], snap.torps[i], w.torps[i])
                      ELSE torps[i] ],
        fuelers |-> [ i \in DOMAIN fuelers \ fgone |->
                        IF i \in DOMAIN snap.fuelers
                        THEN flush_row(fuelers[i], snap.fuelers[i], w.fuelers[i])
                        ELSE fuelers[i] ] ]

\* a commit whose rollback leaves the submarine rows written
commit_keeps_subs(w, t) ==
  IF commit_is_stale(w) THEN [ Store EXCEPT !.subs = flushed(w, t).subs ]
  ELSE flushed(w, t)

\* game_loop, step 3: db.session.commit(), or db.session.rollback() on
\* StaleDataError
commit(w, t) == IF commit_is_stale(w) THEN Store ELSE flushed(w, t)

\* a table without rows, and the loop session between iterations
NoRows == [ i \in {} |-> 0 ]
NoSnap == [ subs |-> NoRows, torps |-> NoRows, fuelers |-> NoRows ]

\* what the last step did
Did(op, ok, user, id) ==
  [ op |-> op, ok |-> ok, user |-> user, id |-> id, hurt |-> FALSE, dead |-> {},
    since |-> None, arg |-> None, err |-> "", out |-> None ]

\* game_loop, step 1: the snapshot under WORLD_LOCK
TickSnapshot ==
  /\ pc = "snapshot"
  /\ now - T0 < MaxTicks
  /\ now' = now + 1
  /\ snap' = [ subs |-> subs, torps |-> torps, fuelers |-> fuelers ]
  /\ pc' = "commit"
  /\ last' = Did("tick_snapshot", TRUE, 0, 0)
  /\ UNCHANGED <<cfg, users, subs, torps, fuelers, tmem, ids, calls, led, queues, pings>>

\* game_loop, steps 2-4: physics on the session's objects (outside the
\* lock), the commit under WORLD_LOCK or its rollback, and the fan-out
TickCommit ==
  /\ pc = "commit"
  /\ \E r1 \in {ReportMin, ReportMax}, r2 \in {TorpReportMin, TorpReportMax} :
     \E w \in { physics(snap, tmem, now, [sub |-> r1, torp |-> r2]) } :
     \E d \in { commit(w, now) } :
     \E m \in { tick_mail([qs |-> queues, log |-> led.log], pings, w.pending,
                           [ subs     |-> [ i \in DOMAIN w.subs |-> w.subs[i].owner ],
                             torps    |-> [ i \in DOMAIN w.torps |-> w.torps[i].owner ],
                             fuelers  |-> DOMAIN d.fuelers,
                             readable |-> ~commit_is_stale(w) ], now) } :
     LET dead  == dead_sub_ids(snap.subs)
         stale == commit_is_stale(w)
     IN
       /\ users' = d.users
       /\ subs' = d.subs
       /\ torps' = d.torps
       /\ fuelers' = d.fuelers
       /\ led' = [ led EXCEPT
                     !.subs = IF stale THEN @
                              ELSE [ i \in DOMAIN subs \ dead |->
                                       IF i \in DOMAIN snap.subs
                                       THEN [ led.subs[i] EXCEPT !.gain =
                                                @ + Max(0, w.subs[i].battery - snap.subs[i].battery) ]
                                       ELSE led.subs[i] ],
                     !.log = m.log,
                     !.rolled = IF stale THEN @ + 1 ELSE @,
                     !.phantom = IF ~stale THEN @
                                 ELSE @ \cup UNION { { <<b.torp, i>> : i \in b.hit } :
                                                     b \in w.blasts } ]
       /\ queues' = m.qs
       /\ pings' = SelectSeq(pings, LAMBDA p : p.eta > now)
       /\ tmem' = [ i \in { j \in DOMAIN w.torps : j \in DOMAIN torps' } |-> w.mem[i] ]
       /\ last' = [ op |-> "tick_commit", ok |-> ~stale, user |-> 0, id |-> 0,
                    hurt |-> \E b \in w.blasts : b.kind = "fuze" /\ b.parent_hurt,
                    since |-> None, arg |-> None, err |-> "", out |-> None,
                    dead |-> IF stale THEN {}
                             ELSE UNION { { <<b.owner, i>> : i \in b.killed } :
                                          b \in w.blasts } ]
  /\ pc' = "snapshot"
  /\ snap' = NoSnap
  /\ UNCHANGED <<cfg, now, ids, calls>>

-----------------------------------------------------------------------------
(* The control API: every handler runs as a whole under WORLD_LOCK *)

\* an ownership check that only looks for the row
Owns_any(u, sid) == sid \in DOMAIN subs

\* SubModel.query.get(sub_id) finds a row that request.user owns
Owns(u, sid) == sid \in DOMAIN subs /\ subs[sid].owner = u

\* the ledger of a submarine as of now
NewLedger(s) == [ ammo0 |-> s.torpedo_ammo, reloaded |-> 0,
                  bat0 |-> s.battery, spent |-> 0, gain |-> 0, pinged |-> None ]

\* random_spawn_pos(): a candidate at least safe_spawn_separation (800 m)
\* from every submarine, else the ring centre
SpawnCandidates == { 20000 }
random_spawn_pos ==
  LET ok == { x \in SpawnCandidates :
                \A i \in DOMAIN subs : ~(distance(x, subs[i].x) < 8000) }
  IN  IF ok = {} THEN {0} ELSE ok

\* register_sub: the cooldowns of the user's last two deaths that are active
active_cooldowns(urow, t) ==
  Cardinality({ k \in {"last_death_ts", "prev_death_ts"} :
                  urow[k] # 0 /\ t - urow[k] < cfg.respawn_cooldown_s })

\* register_sub that counts no cooldown against the slots
register_refused_cap_only(u) ==
  /\ Cardinality({ i \in DOMAIN subs : subs[i].owner = u }) > 0
  /\ cfg.respawn_cooldown_s > 0
  /\ Cardinality({ i \in DOMAIN subs : subs[i].owner = u }) >= cfg.max_per_user

\* register_sub that applies the cooldowns to a user without submarines too
register_refused_always_gated(u) ==
  /\ cfg.respawn_cooldown_s > 0
  /\ Cardinality({ i \in DOMAIN subs : subs[i].owner = u })
       >= Max(0, cfg.max_per_user - active_cooldowns(users[u], now))

\* register_sub: "respawn cooldown active or slot limit reached"
register_refused(u) ==
  LET current_subs    == Cardinality({ i \in DOMAIN subs : subs[i].owner = u })
      available_slots == Max(0, cfg.max_per_user - active_cooldowns(users[u], now))
  IN  /\ current_subs > 0
      /\ cfg.respawn_cooldown_s > 0
      /\ current_subs >= available_slots

\* POST /register_sub
RegisterSub(u) ==
  /\ calls < MaxCalls
  /\ calls' = calls + 1
  /\ IF register_refused(u)
     THEN /\ last' = Did("register_sub", FALSE, u, 0)
          /\ UNCHANGED <<subs, ids, led>>
     ELSE /\ ids.subs < MaxSubs
          /\ \E x \in random_spawn_pos, b \in {BatteryInitMin, BatteryInitMax} :
               LET id == ids.subs + 1
                   s  == NewSub(u, x, IF x > 0 THEN -1 ELSE 1, 1000, b)
               IN  /\ subs' = Insert(subs, id, s)
                   /\ ids' = [ ids EXCEPT !.subs = id ]
                   /\ led' = [ led EXCEPT !.subs = Insert(@, id, NewLedger(s)),
                                          !.owner.subs = Insert(@, id, u) ]
                   /\ last' = Did("register_sub", TRUE, u, id)
  /\ UNCHANGED <<cfg, now, users, torps, fuelers, tmem, pc, snap, queues, pings>>

\* POST /control/<sub_id> with a throttle
Control(u, sid, throttle) ==
  /\ calls < MaxCalls /\ calls' = calls + 1
  /\ IF ~Owns(u, sid)
     THEN /\ last' = Did("control", FALSE, u, sid)
          /\ UNCHANGED subs
     ELSE /\ subs' = [ subs EXCEPT ![sid].throttle = clamp(throttle, 0, 100) ]
          /\ last' = Did("control", TRUE, u, sid)
  /\ UNCHANGED <<cfg, now, users, torps, fuelers, tmem, pc, snap, ids, led, queues, pings>>

\* POST /snorkel/<sub_id> without "on": toggle
Snorkel(u, sid) ==
  /\ calls < MaxCalls /\ calls' = calls + 1
  /\ IF ~Owns(u, sid) \/ (~subs[sid].is_snorkeling /\ subs[sid].depth > SnorkelDepth)
     THEN /\ last' = Did("snorkel", FALSE, u, sid)
          /\ UNCHANGED subs
     ELSE /\ subs' = [ subs EXCEPT ![sid].is_snorkeling = ~@ ]
          /\ last' = Did("snorkel", TRUE, u, sid)
  /\ UNCHANGED <<cfg, now, users, torps, fuelers, tmem, pc, snap, ids, led, queues, pings>>

\* POST /emergency_blow/<sub_id>
EmergencyBlow(u, sid) ==
  /\ calls < MaxCalls /\ calls' = calls + 1
  /\ IF ~Owns(u, sid) \/ subs[sid].blow_charge <= 0
     THEN /\ last' = Did("emergency_blow", FALSE, u, sid)
          /\ UNCHANGED subs
     ELSE /\ subs' = [ subs EXCEPT ![sid].blow_active = TRUE,
                                   ![sid].blow_end = now + BlowDuration ]
          /\ last' = Did("emergency_blow", TRUE, u, sid)
  /\ UNCHANGED <<cfg, now, users, torps, fuelers, tmem, pc, snap, ids, led, queues, pings>>

\* launch_torpedo, under the lock: the magazine check, the round consumed
\* and the torpedo created, in one commit
launch_refused(u, sid) == ~Owns(u, sid) \/ subs[sid].torpedo_ammo <= 0
launch_ammo_kept(ammo) == ammo
launch_ammo(ammo) == ammo - 1

\* POST /launch_torpedo/<sub_id>
LaunchTorpedo(u, sid, range) ==
  /\ calls < MaxCalls /\ calls' = calls + 1
  /\ IF launch_refused(u, sid)
     THEN /\ last' = Did("launch_torpedo", FALSE, u, sid)
          /\ UNCHANGED <<subs, torps, ids, led>>
     ELSE /\ ids.torps < MaxTorps
          /\ LET id == ids.torps + 1
             IN  /\ subs' = [ subs EXCEPT ![sid].torpedo_ammo = launch_ammo(@) ]
                 /\ torps' = Insert(torps, id,
                               NewTorp(u, sid, subs[sid], Min(range, TorpMaxRange), now))
                 /\ ids' = [ ids EXCEPT !.torps = id ]
                 /\ led' = [ led EXCEPT !.made = @ \cup {<<id, sid>>},
                                        !.from = Insert(@, id, torps'[id].x),
                                        !.owner.torps = Insert(@, id, u) ]
                 /\ last' = Did("launch_torpedo", TRUE, u, id)
  /\ UNCHANGED <<cfg, now, users, fuelers, tmem, pc, snap, queues, pings>>

\* reload_torpedoes that loads "count" rounds whatever the magazine holds
to_reload_uncapped(ammo, count) ==
  IF count = None THEN Max(0, MagazineSize - ammo)
  ELSE IF count <= 0 THEN 0
  ELSE count

\* reload_torpedoes: the number of rounds to load for a "count" argument
\* (None: fill the magazine); 0 when the call is refused
to_reload(ammo, count) ==
  LET missing == Max(0, MagazineSize - ammo)
  IN  IF missing <= 0 THEN 0
      ELSE IF count = None THEN missing
      ELSE IF count <= 0 THEN 0
      ELSE Min(count, missing)

\* a reload that costs the same whatever the number of rounds
reload_cost_flat(n) == ReloadCost

\* reload_torpedoes: battery_cost = reload_cost_per * to_reload
reload_cost(n) == ReloadCost * n

\* POST /reload_torpedoes/<sub_id>; last.arg is the "count" of the request
ReloadTorpedoes(u, sid, count) ==
  /\ calls < MaxCalls /\ calls' = calls + 1
  /\ LET n    == IF Owns(u, sid) THEN to_reload(subs[sid].torpedo_ammo, count) ELSE 0
         cost == reload_cost(n)
     IN  IF ~Owns(u, sid) \/ n = 0 \/ subs[sid].battery < cost
         THEN /\ last' = [ Did("reload_torpedoes", FALSE, u, sid) EXCEPT !.arg = count ]
              /\ UNCHANGED <<subs, led>>
         ELSE /\ subs' = [ subs EXCEPT
                             ![sid].battery = clamp(@ - cost, 0, BatteryFull),
                             ![sid].torpedo_ammo = @ + n ]
              /\ led' = [ led EXCEPT !.subs[sid].reloaded = @ + n,
                                     !.subs[sid].spent = @ + cost ]
              /\ last' = [ Did("reload_torpedoes", TRUE, u, sid) EXCEPT !.arg = count ]
  /\ UNCHANGED <<cfg, now, users, torps, fuelers, tmem, pc, snap, ids, queues, pings>>

\* ping: cost = base_cost + beam * cost_per_degree + (max_r / 100) * cost_per_100m_range
ping_cost(beam, max_r) ==
  PingBaseCost + beam * PingCostPerDeg + (max_r * PingCostPerKm) \div 1000

\* ping refuses a battery below min_battery or below the cost; the object's
\* ping_cooldown attribute is not a column, so a freshly loaded row has none
ping_refused(u, sid, cost) ==
  \/ ~Owns(u, sid)
  \/ subs[sid].battery < PingMinBattery
  \/ subs[sid].battery < cost

\* a rejected ping whose debit reaches the store
ping_rejected_row_debited(s, cost) ==
  [ s EXCEPT !.battery = clamp(@ - cost, 0, BatteryFull) ]

\* the stored row of the submarine after a rejected ping: every "return" of
\* an error comes before db.session.commit(), and the session of the request
\* is discarded with whatever it changed
ping_rejected_row(s, cost) == s

\* schedule_active_ping: the submarines the ping illuminates
ping_targets(sid, max_r) ==
  { i \in DOMAIN subs \ {sid} :
      /\ ~(Range3d(subs[sid].x, subs[sid].depth, subs[i].x, subs[i].depth)
             > Min(max_r * 10, SonarMaxRange))
      /\ ahead(subs[sid].x, subs[sid].hdg, subs[i].x) }

\* schedule_active_ping: the entry appended to PENDING_PINGS for target i,
\* eta = now + 2 * rng3d / sound_speed.  time.time() in the handler is later
\* than the loop_start of any iteration that has begun, so in whole ticks
\* the echo is due one iteration later at the earliest.
pending_echo(sid, i, t) ==
  LET rng == Range3d(subs[sid].x, subs[sid].depth, subs[i].x, subs[i].depth)
  IN  [ eta |-> t + Max(1, (2 * rng * TicksPerS + SoundSpeed - 1) \div SoundSpeed),
        rng |-> rng,
        observer_sub_id |-> sid, observer_user_id |-> subs[sid].owner ]

schedule_active_ping(sid, max_r, t) ==
  LET order == InOrder(ping_targets(sid, max_r))
  IN  [ k \in 1..Len(order) |-> pending_echo(sid, order[k], t) ]

\* ping, "Notify others": snr = 15 * beam / 90 + 3 * max_r / 1000 - dist / 600
ping_snr(sid, i, beam, max_r) ==
  (15000 * beam) \div 90 + 3 * max_r - distance(subs[sid].x, subs[i].x) \div 6

\* a notification that does not leave out the pinging submarine
ping_heard_by_all(sid, beam, max_r) ==
  { i \in DOMAIN subs : ping_snr(sid, i, beam, max_r) > 1000 }

\* the submarines that detect the ping
ping_heard_by(sid, beam, max_r) ==
  { i \in DOMAIN subs \ {sid} : ping_snr(sid, i, beam, max_r) > 1000 }

\* the 'contact' events of type active_ping_detected, in list order
ping_notices(sid, beam, max_r, t) ==
  LET order == InOrder(ping_heard_by(sid, beam, max_r))
  IN  [ k \in 1..Len(order) |->
          Pending(subs[order[k]].owner,
                  Event("contact", "active_ping_detected", order[k], None,
                        ping_snr(sid, order[k], beam, max_r), t, "ping")) ]

\* POST /ping/<sub_id> with the default beam and a range in metres
Ping(u, sid, max_r) ==
  /\ calls < MaxCalls /\ calls' = calls + 1
  /\ LET cost == ping_cost(PingBeamDefault, max_r)
     IN  IF ping_refused(u, sid, cost)
         THEN /\ last' = Did("ping", FALSE, u, sid)
              /\ subs' = IF Owns(u, sid)
                         THEN [ subs EXCEPT ![sid] = ping_rejected_row(@, cost) ]
                         ELSE subs
              /\ UNCHANGED <<led, queues, pings>>
         ELSE /\ subs' = [ subs EXCEPT ![sid].battery = clamp(@ - cost, 0, BatteryFull) ]
              /\ pings' = pings \o schedule_active_ping(sid, max_r, now)
              /\ \E m \in { fan_out([qs |-> queues, log |-> led.log],
                                     ping_notices(sid, PingBeamDefault, max_r, now), now) } :
                   /\ queues' = m.qs
                   /\ led' = [ led EXCEPT
                                 !.subs[sid].spent = @ + cost,
                                 !.subs[sid].pinged = now,
                                 !.log = m.log,
                                 !.echo = @ \o schedule_active_ping(sid, max_r, now) ]
              /\ last' = [ Did("ping", TRUE, u, sid) EXCEPT
                             !.arg = max_r,
                             !.since = IF led.subs[sid].pinged = None THEN None
                                       ELSE now - led.subs[sid].pinged ]
  /\ UNCHANGED <<cfg, now, users, torps, fuelers, tmem, pc, snap, ids>>

\* POST /weather_scan/<sub_id>
WeatherScan(u, sid) ==
  /\ calls < MaxCalls /\ calls' = calls + 1
  /\ IF ~Owns(u, sid) \/ subs[sid].battery < ScanCost
     THEN /\ last' = Did("weather_scan", FALSE, u, sid)
          /\ UNCHANGED <<subs, led>>
     ELSE /\ subs' = [ subs EXCEPT
                         ![sid].battery = clamp(@ - ScanCost, 0, BatteryFull),
                         ![sid].scanner_noise_until = Max(@, now + ScanNoise) ]
          /\ led' = [ led EXCEPT !.subs[sid].spent = @ + ScanCost ]
          /\ last' = Did("weather_scan", TRUE, u, sid)
  /\ UNCHANGED <<cfg, now, users, torps, fuelers, tmem, pc, snap, ids, queues, pings>>

\* a call_fueler that never finds a fueler of the caller
has_fueler_never(u) == FALSE

\* call_fueler: the caller has an active fueler
has_fueler(u) == \E f \in DOMAIN fuelers : fuelers[f].owner = u

\* POST /call_fueler/<sub_id>: the fueler spawns 1000 m from the caller
CallFueler(u, sid) ==
  /\ calls < MaxCalls /\ calls' = calls + 1
  /\ IF ~Owns(u, sid) \/ has_fueler(u)
     THEN /\ last' = Did("call_fueler", FALSE, u, sid)
          /\ UNCHANGED <<fuelers, ids>>
     ELSE /\ ids.fuelers < MaxFuelers
          /\ LET id == ids.fuelers + 1
             IN  /\ fuelers' = Insert(fuelers, id, NewFueler(u, subs[sid].x + 10000, now))
                 /\ ids' = [ ids EXCEPT !.fuelers = id ]
                 /\ last' = Did("call_fueler", TRUE, u, id)
  /\ UNCHANGED <<cfg, now, users, subs, torps, tmem, pc, snap, led, queues, pings>>

\* start_refuel: the nearest fueler with fuel, when it is within 50 m
fuelers_in_reach(s) ==
  { f \in DOMAIN fuelers :
      /\ fuelers[f].fuel > 0
      /\ Within3d(s.x, s.depth, fuelers[f].x, fuelers[f].depth, RefuelRange) }

nearest_fueler(s) ==
  MinOf({ f \in fuelers_in_reach(s) :
            \A g \in fuelers_in_reach(s) :
               Dist2(s.x, s.depth, fuelers[f].x, fuelers[f].depth)
                 <= Dist2(s.x, s.depth, fuelers[g].x, fuelers[g].depth) })

\* POST /start_refuel/<sub_id>
StartRefuel(u, sid) ==
  /\ calls < MaxCalls /\ calls' = calls + 1
  /\ IF ~Owns(u, sid) \/ fuelers_in_reach(subs[sid]) = {}
     THEN /\ last' = Did("start_refuel", FALSE, u, sid)
          /\ UNCHANGED subs
     ELSE /\ subs' = [ subs EXCEPT
                         ![sid].refuel_active = TRUE,
                         ![sid].refuel_fueler_id = nearest_fueler(subs[sid]),
                         ![sid].refuel_timer = 0,
                         ![sid].is_snorkeling = TRUE,
                         ![sid].target_depth = SnorkelDepth ]
          /\ last' = Did("start_refuel", TRUE, u, sid)
  /\ UNCHANGED <<cfg, now, users, torps, fuelers, tmem, pc, snap, ids, led, queues, pings>>

\* detonate_torp: the submarines within the blast radius, dead ones included
detonate_hits(tr, ss) ==
  { i \in DOMAIN ss : Within3d(tr.x, tr.depth, ss[i].x, ss[i].depth, cfg.blast_radius) }

\* detonate_torp: the health of every submarine within the blast radius
\* drops by the graduated damage
detonate_damage(tr, ss) ==
  [ i \in DOMAIN ss |->
      IF i \in detonate_hits(tr, ss)
      THEN [ ss[i] EXCEPT !.health = Max(0, @ - blast_damage(tr.x, tr.depth, ss[i].x, ss[i].depth)) ]
      ELSE ss[i] ]

\* detonate_torp: the 'explosion' event of every submarine within the radius
detonate_events(tid, tr, ss, t) ==
  LET order == InOrder(detonate_hits(tr, ss))
  IN  [ k \in 1..Len(order) |->
          Pending(ss[order[k]].owner,
                  Event("explosion", "explosion", order[k], tid,
                        blast_damage(tr.x, tr.depth, ss[order[k]].x, ss[order[k]].depth),
                        t, "detonate")) ]

\* POST /detonate/<torp_id>
Detonate(u, tid) ==
  /\ calls < MaxCalls /\ calls' = calls + 1
  /\ IF tid \notin DOMAIN torps \/ torps[tid].owner # u
     THEN /\ last' = Did("detonate", FALSE, u, tid)
          /\ UNCHANGED <<subs, torps, queues, led>>
     ELSE /\ subs' = detonate_damage(torps[tid], subs)
          /\ torps' = [ i \in DOMAIN torps \ {tid} |-> torps[i] ]
          /\ \E m \in { fan_out([qs |-> queues, log |-> led.log],
                                 detonate_events(tid, torps[tid], subs, now), now) } :
               /\ queues' = m.qs
               /\ led' = [ led EXCEPT !.log = m.log ]
          /\ last' = [ Did("detonate", TRUE, u, tid) EXCEPT
                         !.hurt =
                           /\ torps[tid].battery > 0
                           /\ too_close_to_parent(torps[tid], subs)
                           /\ subs'[torps[tid].parent_sub].health
                                < subs[torps[tid].parent_sub].health,
                         !.dead =
                           { <<u, i>> : i \in { j \in DOMAIN subs :
                                                  subs[j].health > 0 /\ subs'[j].health <= 0 } } ]
  /\ UNCHANGED <<cfg, now, users, fuelers, tmem, pc, snap, ids, pings>>

\* POST /torp_ping_toggle/<torp_id>
TorpPingToggle(u, tid) ==
  /\ calls < MaxCalls /\ calls' = calls + 1
  /\ IF tid \notin DOMAIN torps \/ torps[tid].owner # u
     THEN /\ last' = Did("torp_ping_toggle", FALSE, u, tid)
          /\ UNCHANGED torps
     ELSE /\ torps' = [ torps EXCEPT ![tid].active_sonar_enabled = ~@ ]
          /\ last' = Did("torp_ping_toggle", TRUE, u, tid)
  /\ UNCHANGED <<cfg, now, users, subs, fuelers, tmem, pc, snap, ids, led, queues, pings>>

\* GET /stream: the queue is created on first use and send_snapshot puts a
\* snapshot on it
Stream(u) ==
  /\ calls < MaxCalls /\ calls' = calls + 1
  /\ \E m \in { send_private([qs |-> uq(queues, u, now), log |-> led.log], u,
                              Snapshot(u, [ i \in DOMAIN subs |-> subs[i].owner ],
                                       [ i \in DOMAIN torps |-> torps[i].owner ],
                                       DOMAIN fuelers, now, "stream"),
                              now) } :
       /\ queues' = m.qs
       /\ led' = [ led EXCEPT !.log = m.log ]
  /\ last' = Did("stream", TRUE, u, 0)
  /\ UNCHANGED <<cfg, now, users, subs, torps, fuelers, tmem, pc, snap, ids, pings>>

\* the stream generator's q.get(): the oldest event leaves the queue
StreamGet(u) ==
  /\ calls < MaxCalls /\ calls' = calls + 1
  /\ u \in DOMAIN queues
  /\ qsize(queues[u]) > 0
  /\ queues' = [ queues EXCEPT ![u] =
                   IF @.old > 0 THEN [ @ EXCEPT !.old = @ - 1 ]
                   ELSE [ @ EXCEPT !.evs = Tail(@) ] ]
  /\ last' = Did("stream_get", TRUE, u, 0)
  /\ UNCHANGED <<cfg, now, users, subs, torps, fuelers, tmem, pc, snap, ids, led, pings>>

-----------------------------------------------------------------------------
(* Initial states: the configuration is loaded and the durable store holds  *)
(* what an earlier run of the server left in it                             *)

DefaultCfg == [ max_per_user |-> MaxPerUser, respawn_cooldown_s |-> RespawnCooldown,
                proximity_fuze_m |-> 0, blast_radius |-> BlastRadius ]

NoDeaths    == [ last_death_ts |-> 0, prev_death_ts |-> 0 ]
RecentDeath == [ last_death_ts |-> T0 - RespawnCooldown + 1, prev_death_ts |-> 0 ]
TwoRecentDeaths == [ last_death_ts |-> T0 - 240, prev_death_ts |-> T0 - 480 ]

\* a submarine that has been under way since it was registered
Cruising(owner, x, hdg, depth, battery) ==
  [ NewSub(owner, x, hdg, depth, battery) EXCEPT !.speed = 24 ]

EmptyWorld ==
  [ subs |-> NoRows, torps |-> NoRows, fuelers |-> NoRows,
    users |-> [ u \in Users |-> IF u = 2 THEN TwoRecentDeaths ELSE NoDeaths ] ]

\* two submarines of different owners 40 m apart; user 1 lost one a while
\* ago; the stream of user 2 is not being read and its queue is full
DuelWorld ==
  [ subs |-> 1 :> Cruising(1, 0, 1, 1000, 50000)
          @@ 2 :> [ Cruising(2, 400, -1, 1000, 15000) EXCEPT !.torpedo_ammo = 1 ],
    torps |-> NoRows, fuelers |-> NoRows,
    users |-> [ u \in Users |-> IF u = 1 THEN RecentDeath ELSE NoDeaths ],
    queues |-> 2 :> [ old |-> QueueMax, evs |-> << >>, last |-> T0 - 3 ] ]

\* a torpedo of user 1 in flight, 148 m from its parent and 22 m from a
\* submarine of user 2
FuzeWorld ==
  [ subs |-> 1 :> [ Cruising(1, 0, 1, 1000, 50000) EXCEPT !.torpedo_ammo = 3 ]
          @@ 2 :> Cruising(2, 1700, 1, 1000, 60000),
    torps |-> 1 :> [ NewTorp(1, 1, [x |-> 1360, depth |-> 1000, hdg |-> 1], 10000, T0 - 80)
                       EXCEPT !.speed = 80, !.battery = 98000 ],
    fuelers |-> NoRows,
    users |-> [ u \in Users |-> NoDeaths ],
    queues |-> 1 :> [ old |-> 0, evs |-> << >>, last |-> T0 - 4 ] ]

\* a submarine below crush depth with little health left
DeepWorld ==
  [ subs |-> 1 :> [ Cruising(1, 3000, 1, 5010, 50000) EXCEPT !.health = 5, !.blow_charge = 20 ],
    torps |-> NoRows, fuelers |-> NoRows,
    users |-> [ u \in Users |-> NoDeaths ] ]

\* a submarine outside the ring inside a hazard cloud, its battery nearly
\* flat; its owner lost another one a while ago
StormWorld ==
  [ subs |-> 1 :> [ Cruising(1, 70000, 1, 1000, 300) EXCEPT !.health = 80 ],
    torps |-> NoRows, fuelers |-> NoRows,
    users |-> [ u \in Users |-> IF u = 1 THEN RecentDeath ELSE NoDeaths ] ]

\* a submarine moored under a fueler, one loop iteration short of the warm-up
RefuelWorld ==
  [ subs |-> 1 :> [ NewSub(1, 5000, 1, 150, 99900) EXCEPT
                      !.throttle = 0, !.fuel = MaxFuelCapacity - 60000,
                      !.is_snorkeling = TRUE, !.target_depth = SnorkelDepth,
                      !.refuel_active = TRUE, !.refuel_fueler_id = 1,
                      !.refuel_timer = RefuelWarmup - 1, !.blow_charge = 900 ],
    torps |-> NoRows,
    fuelers |-> 1 :> [ NewFueler(1, 5000, T0 - 800) EXCEPT !.fuel = 55000 ],
    users |-> [ u \in Users |-> NoDeaths ] ]

\* a snorkelling submarine with a nearly full battery and little fuel
SnorkelWorld ==
  [ subs |-> 1 :> [ Cruising(2, 5200, 1, 140, 99900) EXCEPT
                      !.is_snorkeling = TRUE, !.fuel = 100, !.blow_charge = 0 ],
    torps |-> NoRows, fuelers |-> NoRows,
    users |-> [ u \in Users |-> NoDeaths ] ]

\* nobody has connected to /stream or been sent an event yet
NoMail == [ queues |-> NoRows ]

\* no torpedo object is loaded in the loop's session, and no launch point is
\* on record
NoFlights == [ tmem |-> NoRows, from |-> NoRows ]

Scenarios ==
  { [ world |-> EmptyWorld,   cfg |-> DefaultCfg ],
    [ world |-> EmptyWorld,   cfg |-> [ DefaultCfg EXCEPT !.respawn_cooldown_s = 0,
                                                           !.max_per_user = 1 ] ],
    [ world |-> DuelWorld,    cfg |-> DefaultCfg ],
    [ world |-> FuzeWorld,    cfg |-> [ DefaultCfg EXCEPT !.proximity_fuze_m = 300 ] ],
    [ world |-> DeepWorld,    cfg |-> DefaultCfg ],
    [ world |-> StormWorld,   cfg |-> [ DefaultCfg EXCEPT !.max_per_user = 3 ] ],
    [ world |-> RefuelWorld,  cfg |-> DefaultCfg ],
    [ world |-> SnorkelWorld, cfg |-> DefaultCfg ] }

\* the process starts on a store that holds the rows of world, with
\* configuration c
Start(world, c) ==
  /\ cfg = c
  /\ now = T0
  /\ users = world.users
  /\ subs = world.subs
  /\ torps = world.torps
  /\ fuelers = world.fuelers
  /\ tmem = (world @@ NoFlights).tmem
  /\ pc = "snapshot"
  /\ snap = NoSnap
  /\ ids = [ subs |-> Cardinality(DOMAIN world.subs),
             torps |-> Cardinality(DOMAIN world.torps),
             fuelers |-> Cardinality(DOMAIN world.fuelers) ]
  /\ calls = 0
  /\ last = Did("start", TRUE, 0, 0)
  /\ queues = (world @@ NoMail).queues
  /\ pings = << >>
  /\ led = [ subs |-> [ i \in DOMAIN world.subs |-> NewLedger(world.subs[i]) ],
             made |-> {},
             from |-> (world @@ NoFlights).from,
             owner |-> [ subs |-> [ i \in DOMAIN world.subs |-> world.subs[i].owner ],
                         torps |-> [ i \in DOMAIN world.torps |-> world.torps[i].owner ] ],
             log |-> [ u \in Users |-> << >> ],
             echo |-> << >>,
             phantom |-> {}, rolled |-> 0 ]

Init == \E sc \in Scenarios : Start(sc.world, sc.cfg)

\* the max_range arguments of the pings, in metres
PingRanges == { PingRangeDefault, 100 }

\* the requests the clients send: each on a submarine or torpedo of the caller
Next ==
  \/ TickSnapshot
  \/ TickCommit
  \/ \E u \in Users : RegisterSub(u)
  \/ \E sid \in DOMAIN subs, thr \in {100} : Control(subs[sid].owner, sid, thr)
  \/ \E sid \in DOMAIN subs : Snorkel(subs[sid].owner, sid)
  \/ \E sid \in DOMAIN subs : EmergencyBlow(subs[sid].owner, sid)
  \/ \E sid \in DOMAIN subs : LaunchTorpedo(subs[sid].owner, sid, TorpDefaultRange)
  \/ \E sid \in DOMAIN subs, count \in {None, 1} :
        ReloadTorpedoes(subs[sid].owner, sid, count)
  \/ \E sid \in DOMAIN subs, max_r \in PingRanges : Ping(subs[sid].owner, sid, max_r)
  \/ \E sid \in DOMAIN subs : WeatherScan(subs[sid].owner, sid)
  \/ \E sid \in DOMAIN subs : CallFueler(subs[sid].owner, sid)
  \/ \E sid \in DOMAIN subs : StartRefuel(subs[sid].owner, sid)
  \/ \E tid \in DOMAIN torps : Detonate(torps[tid].owner, tid)
  \/ \E tid \in DOMAIN torps : TorpPingToggle(torps[tid].owner, tid)
  \/ \E u \in Users : Stream(u)
  \/ \E u \in Users : StreamGet(u)

Spec == Init /\ [][Next]_vars

-----------------------------------------------------------------------------
(* The blast of one torpedo on one submarine, for every blast radius,      *)
(* distance and health of interest: explode_torpedo_in_mem and            *)
(* detonate_torp applied to the same store                                *)

BlastRadii   == { 600, 900, 1200 }
BlastHealths == { HealthFull, 6000, 0 }

\* the offsets <<dx, dz>> of the submarine from the torpedo: the distances
\* 0, 60, 80, 90, 100 and 120 m, each also one decimetre longer, and 60, 80,
\* 100 and 120 m off the axes
BlastOffsets ==
  { <<0, 0>>, <<600, 0>>, <<601, 0>>, <<360, 480>>, <<800, 0>>, <<801, 0>>,
    <<480, 640>>, <<900, 0>>, <<901, 0>>, <<1000, 0>>, <<1001, 0>>, <<600, 800>>,
    <<1200, 0>>, <<1201, 0>>, <<720, 960>> }

\* a torpedo of user 1 at x = 0, 100 m deep, whose parent is gone, and a
\* submarine of user 2 at offset off with health h
BlastWorld(off, h) ==
  [ subs |-> 1 :> [ Cruising(2, off[1], 1, 1000 + off[2], 50000) EXCEPT !.health = h ],
    torps |-> 1 :> NewTorp(1, 2, [x |-> 0 - NoseOffset, depth |-> 1000, hdg |-> 1],
                           10000, T0 - 80),
    fuelers |-> NoRows,
    users |-> [ u \in Users |-> NoDeaths ] ]

BlastInit ==
  \E r \in BlastRadii, off \in BlastOffsets, h \in BlastHealths :
     Start(BlastWorld(off, h), [ DefaultCfg EXCEPT !.blast_radius = r ])

\* explode_torpedo_in_mem(t, subs, pending_events) on the stored rows
ExplodeInMem(tid) ==
  /\ last.op = "start"
  /\ subs' = explode_torpedo_in_mem(tid, torps[tid], subs, now).subs
  /\ last' = Did("explode", TRUE, torps[tid].owner, tid)
  /\ UNCHANGED <<cfg, now, users, torps, fuelers, tmem, pc, snap, ids, calls, led,
                 queues, pings>>

BlastNext ==
  \/ \E tid \in DOMAIN torps : ExplodeInMem(tid)
  \/ \E tid \in DOMAIN torps : Detonate(torps[tid].owner, tid)

BlastSpec == BlastInit /\ [][BlastNext]_vars

-----------------------------------------------------------------------------
(* The control API called by any user on any id, its own, another user's    *)
(* or none: the handlers alone, between two iterations of the loop          *)

\* TorpedoModel.query.get(torp_id) finds a row that request.user owns
OwnsTorp(u, tid) == tid \in DOMAIN torps /\ torps[tid].owner = u

\* POST /set_torp_speed/<torp_id>
SetTorpSpeed(u, tid, speed) ==
  /\ calls < MaxCalls /\ calls' = calls + 1
  /\ IF ~OwnsTorp(u, tid)
     THEN /\ last' = Did("set_torp_speed", FALSE, u, tid)
          /\ UNCHANGED torps
     ELSE /\ torps' = [ torps EXCEPT
                          ![tid].target_speed = clamp(speed, TorpMinSpeed, TorpMaxSpeed) ]
          /\ last' = Did("set_torp_speed", TRUE, u, tid)
  /\ UNCHANGED <<cfg, now, users, subs, fuelers, tmem, pc, snap, ids, led, queues, pings>>

\* a wire check that lets every torpedo through
wire_never_lost(tid) == FALSE

\* a wire-only handler answers 'wire lost' once the torpedo runs free
wire_lost(tid) == torps[tid].control_mode # "wire"

\* POST /set_torp_heading/<torp_id> with heading_deg and a dt long enough
\* for the turn (max_turn = turn_rate_deg_s * dt)
SetTorpHeading(u, tid, hdg) ==
  /\ calls < MaxCalls /\ calls' = calls + 1
  /\ IF ~OwnsTorp(u, tid)
     THEN /\ last' = Did("set_torp_heading", FALSE, u, tid)
          /\ UNCHANGED torps
     ELSE IF wire_lost(tid)
     THEN /\ last' = [ Did("set_torp_heading", FALSE, u, tid) EXCEPT !.err = "wire lost" ]
          /\ UNCHANGED torps
     ELSE /\ torps' = [ torps EXCEPT ![tid].hdg = hdg ]
          /\ last' = Did("set_torp_heading", TRUE, u, tid)
  /\ UNCHANGED <<cfg, now, users, subs, fuelers, tmem, pc, snap, ids, led, queues, pings>>

\* Headings are whole degrees here: a server heading is counted from east,
\* counter-clockwise (the hdg of a row is 1 for 0 degrees and -1 for 180), a
\* compass heading from north, clockwise.

\* server_deg = (90 - compass_deg) % 360
compass_to_server(c) == (90 - c) % 360

\* (heading * 180 / math.pi + 90) % 360
server_to_compass(h) == (h + 90) % 360

\* compass_target of a response: "... if target_heading else None", where a
\* target of 0.0 counts as no target
compass_target(th) ==
  IF th = None \/ th = 0 THEN None ELSE server_to_compass(th)

\* wrap_angle(a), in degrees: into [-180, 180)
wrap_angle(a) == ((a + 180) % 360) - 180

\* the heading column of a row, in degrees
heading_deg(row) == IF row.hdg = 1 THEN 0 ELSE 180

\* POST /set_torp_target_heading/<torp_id> with heading_deg, a compass
\* heading; last.arg is the request's heading_deg, last.out the
\* compass_target of the response
SetTorpTargetHeading(u, tid, c) ==
  /\ calls < MaxCalls /\ calls' = calls + 1
  /\ IF ~OwnsTorp(u, tid)
     THEN /\ last' = [ Did("set_torp_target_heading", FALSE, u, tid) EXCEPT !.arg = c ]
          /\ UNCHANGED torps
     ELSE IF wire_lost(tid)
     THEN /\ last' = [ Did("set_torp_target_heading", FALSE, u, tid)
                         EXCEPT !.err = "wire lost", !.arg = c ]
          /\ UNCHANGED torps
     ELSE /\ torps' = [ torps EXCEPT ![tid].target_heading = compass_to_server(c) ]
          /\ last' = [ Did("set_torp_target_heading", TRUE, u, tid) EXCEPT
                         !.arg = c, !.out = compass_target(compass_to_server(c)) ]
  /\ UNCHANGED <<cfg, now, users, subs, fuelers, tmem, pc, snap, ids, led, queues, pings>>

\* POST /set_sub_heading/<sub_id> with heading_deg, a compass heading
SetSubHeading(u, sid, c) ==
  /\ calls < MaxCalls /\ calls' = calls + 1
  /\ IF ~Owns(u, sid)
     THEN /\ last' = [ Did("set_sub_heading", FALSE, u, sid) EXCEPT !.arg = c ]
          /\ UNCHANGED subs
     ELSE /\ subs' = [ subs EXCEPT ![sid].target_heading = compass_to_server(c) ]
          /\ last' = [ Did("set_sub_heading", TRUE, u, sid) EXCEPT
                         !.arg = c, !.out = compass_target(compass_to_server(c)) ]
  /\ UNCHANGED <<cfg, now, users, torps, fuelers, tmem, pc, snap, ids, led, queues, pings>>

\* turn_sub: the target heading for a turn of d degrees from heading h
turn_target(h, d) ==
  compass_to_server(server_to_compass(wrap_angle(h + d)))

\* POST /turn_sub/<sub_id> with turn_deg
TurnSub(u, sid, d) ==
  /\ calls < MaxCalls /\ calls' = calls + 1
  /\ IF ~Owns(u, sid)
     THEN /\ last' = [ Did("turn_sub", FALSE, u, sid) EXCEPT !.arg = d ]
          /\ UNCHANGED subs
     ELSE /\ subs' = [ subs EXCEPT
                         ![sid].target_heading = turn_target(heading_deg(subs[sid]), d) ]
          /\ last' = [ Did("turn_sub", TRUE, u, sid) EXCEPT
                         !.arg = d,
                         !.out = compass_target(turn_target(heading_deg(subs[sid]), d)) ]
  /\ UNCHANGED <<cfg, now, users, torps, fuelers, tmem, pc, snap, ids, led, queues, pings>>

\* POST /torp_passive_sonar_toggle/<torp_id>
TorpPassiveSonarToggle(u, tid) ==
  /\ calls < MaxCalls /\ calls' = calls + 1
  /\ IF ~OwnsTorp(u, tid)
     THEN /\ last' = Did("torp_passive_sonar_toggle", FALSE, u, tid)
          /\ UNCHANGED torps
     ELSE IF wire_lost(tid)
     THEN /\ last' = [ Did("torp_passive_sonar_toggle", FALSE, u, tid) EXCEPT !.err = "wire lost" ]
          /\ UNCHANGED torps
     ELSE /\ torps' = [ torps EXCEPT ![tid].passive_sonar_active = ~@ ]
          /\ last' = Did("torp_passive_sonar_toggle", TRUE, u, tid)
  /\ UNCHANGED <<cfg, now, users, subs, fuelers, tmem, pc, snap, ids, led, queues, pings>>

\* user 1 has a submarine with one torpedo on its wire and one that runs
\* free since its wire was cut; user 2 has a submarine with a torpedo on its
\* wire
WireWorld ==
  [ subs |-> 1 :> [ Cruising(1, 0, 1, 1000, 50000) EXCEPT !.torpedo_ammo = 2 ]
          @@ 2 :> [ Cruising(2, 30000, -1, 1000, 50000) EXCEPT !.torpedo_ammo = 3 ],
    torps |-> 1 :> [ NewTorp(1, 1, [x |-> 2000, depth |-> 1000, hdg |-> 1], 10000, T0 - 120)
                       EXCEPT !.speed = 80 ]
           @@ 2 :> [ NewTorp(1, 1, [x |-> 12000, depth |-> 1000, hdg |-> 1], 10000, T0 - 600)
                       EXCEPT !.speed = 80, !.control_mode = "free" ]
           @@ 3 :> [ NewTorp(2, 2, [x |-> 28000, depth |-> 1000, hdg |-> -1], 10000, T0 - 120)
                       EXCEPT !.speed = 80 ],
    fuelers |-> NoRows,
    users |-> [ u \in Users |-> NoDeaths ] ]

ApiScenarios ==
  { [ world |-> WireWorld,    cfg |-> DefaultCfg ],
    [ world |-> RefuelWorld,  cfg |-> DefaultCfg ],
    [ world |-> SnorkelWorld, cfg |-> DefaultCfg ] }

ApiInit == \E sc \in ApiScenarios : Start(sc.world, sc.cfg)

\* the ids a request can name: those of the rows and one that names no row
SubIds  == DOMAIN subs \cup { Cardinality(DOMAIN subs) + MaxSubs }
TorpIds == DOMAIN torps \cup { Cardinality(DOMAIN torps) + MaxTorps }

ApiNext ==
  \E u \in Users :
    \/ \E sid \in SubIds : Control(u, sid, 100)
    \/ \E sid \in SubIds : Snorkel(u, sid)
    \/ \E sid \in SubIds : EmergencyBlow(u, sid)
    \/ \E sid \in SubIds : LaunchTorpedo(u, sid, TorpDefaultRange)
    \/ \E sid \in SubIds : ReloadTorpedoes(u, sid, None)
    \/ \E sid \in SubIds : Ping(u, sid, 100)
    \/ \E sid \in SubIds : WeatherScan(u, sid)
    \/ \E sid \in SubIds : CallFueler(u, sid)
    \/ \E sid \in SubIds : StartRefuel(u, sid)
    \/ \E tid \in TorpIds : Detonate(u, tid)
    \/ \E tid \in TorpIds : TorpPingToggle(u, tid)
    \/ \E tid \in TorpIds : SetTorpSpeed(u, tid, TorpMaxSpeed)
    \/ \E tid \in TorpIds, hdg \in {-1, 1} : SetTorpHeading(u, tid, hdg)
    \/ \E tid \in TorpIds, c \in {0, 90} : SetTorpTargetHeading(u, tid, c)
    \/ \E tid \in TorpIds : TorpPassiveSonarToggle(u, tid)

ApiSpec == ApiInit /\ [][ApiNext]_vars

-----------------------------------------------------------------------------
(* Torpedoes near the end of their range budget: the loop and the calls    *)
(* of the owner on a torpedo that has been running for minutes.            *)

\* the row and the non-column attributes of torpedo tr after n more loop
\* iterations with the submarines ss, the last of them at time t
RECURSIVE flown(_, _, _, _, _)
flown(tr, m, ss, n, t) ==
  IF n = 0 THEN [row |-> tr, mem |-> m]
  ELSE Only({ flown(r.row, r.mem, ss, n - 1, t) :
                r \in { update_torpedo(tr, m, ss, t - n + 1) } })

\* the range argument of a short shot: 100 m
FlightRange == 1000

\* loop iterations a torpedo has been running for: 5 to 6 s
FlightTicks == { 22, 23, 24, 25 }

\* a submarine of user 1 holding position at x = 0, and the torpedo it
\* launched n loop iterations ago with a range of 100 m and ordered to
\* 18 m/s at once; a submarine of user 2 far away
FlightWorld(n) ==
  LET parent == [ NewSub(1, 0, 1, 1000, 50000) EXCEPT !.torpedo_ammo = 3 ]
      shot   == [ NewTorp(1, 1, parent, FlightRange, T0 - n)
                    EXCEPT !.target_speed = TorpMaxSpeed ]
      f      == flown(shot, NewTmem, 1 :> parent, n, T0)
  IN  [ subs |-> 1 :> parent @@ 2 :> Cruising(2, 50000, 1, 1000, 50000),
        torps |-> 1 :> f.row, fuelers |-> NoRows,
        users |-> [ u \in Users |-> NoDeaths ],
        tmem |-> 1 :> f.mem, from |-> 1 :> shot.x ]

\* the range arguments of the launches: the default and one beyond max_range
LaunchRanges == { TorpDefaultRange, 2 * TorpMaxRange }

FlightInit == \E n \in FlightTicks : Start(FlightWorld(n), DefaultCfg)

FlightNext ==
  \/ TickSnapshot
  \/ TickCommit
  \/ \E sid \in DOMAIN subs, range \in LaunchRanges :
        LaunchTorpedo(subs[sid].owner, sid, range)
  \/ \E tid \in DOMAIN torps, speed \in {TorpMinSpeed, TorpMaxSpeed} :
        SetTorpSpeed(torps[tid].owner, tid, speed)
  \/ \E tid \in DOMAIN torps, hdg \in {-1, 1} :
        SetTorpHeading(torps[tid].owner, tid, hdg)

FlightSpec == FlightInit /\ [][FlightNext]_vars

-----------------------------------------------------------------------------
(* The guidance wire of freshly launched torpedoes, for every range        *)
(* argument of the launch.                                                 *)

\* a submarine of user 1 holding position at x = 0 and a submarine of user 2
\* under way 3 km from it; user 2 has launched a torpedo with a range of
\* 10 m, which lost its wire at once, was ordered to 8 m/s and is now 5 m
\* ahead of its parent, which caught up with it
TubesWorld ==
  [ subs |-> 1 :> [ NewSub(1, 0, 1, 1000, 50000) EXCEPT !.torpedo_ammo = 3 ]
          @@ 2 :> [ Cruising(2, 30000, -1, 1000, 50000) EXCEPT !.torpedo_ammo = 3 ],
    torps |-> 1 :> [ NewTorp(2, 2, [x |-> 30070, depth |-> 1000, hdg |-> -1], 100, T0 - 200)
                       EXCEPT !.speed = TorpMinSpeed, !.target_speed = TorpMinSpeed,
                              !.control_mode = "free" ],
    fuelers |-> NoRows,
    users |-> [ u \in Users |-> NoDeaths ] ]

\* the range arguments of the launches: the default, a short one, zero and
\* a negative one
WireRanges == { TorpDefaultRange, 100, 0, -500 }

WireInit == Start(TubesWorld, DefaultCfg)

WireNext ==
  \/ TickSnapshot
  \/ TickCommit
  \/ \E sid \in DOMAIN subs, range \in WireRanges :
        LaunchTorpedo(subs[sid].owner, sid, range)
  \/ \E tid \in DOMAIN torps, speed \in {TorpMinSpeed, TorpMaxSpeed} :
        SetTorpSpeed(torps[tid].owner, tid, speed)

WireSpec == WireInit /\ [][WireNext]_vars

-----------------------------------------------------------------------------
(* The end of a torpedo's run: torpedoes with a nearly flat battery, one   *)
(* of them at the end of its range, the loop and the calls of the owners.  *)

\* the charge left in the battery of the first torpedo, in 1/1000 %
LastCharges == { 60, 150 }

\* user 1 has a torpedo at 18 m/s that has lost its wire, with charge b
\* left; user 2 has a torpedo at 11 m/s on its wire, 5998 m from the point
\* of its first update and heading away from it, with charge for two more
\* iterations
LifeWorld(b) ==
  [ subs |-> 1 :> NewSub(1, 0, 1, 1000, 50000)
          @@ 2 :> Cruising(2, 20000, -1, 1000, 50000),
    torps |-> 1 :> [ NewTorp(1, 1, [x |-> 36880, depth |-> 1000, hdg |-> 1], 10000, T0 - 820)
                       EXCEPT !.speed = TorpMaxSpeed, !.target_speed = TorpMaxSpeed,
                              !.control_mode = "free", !.battery = b ]
           @@ 2 :> [ NewTorp(2, 2, [x |-> -29980, depth |-> 1000, hdg |-> -1],
                             TorpMaxRange, T0 - 2180)
                       EXCEPT !.speed = 110, !.target_speed = 110, !.battery = 60 ],
    fuelers |-> NoRows,
    users |-> [ u \in Users |-> NoDeaths ],
    tmem |-> 1 :> [ NewTmem EXCEPT !.start_x = 120, !.has_start = TRUE,
                                   !.check_prox = TRUE ]
          @@ 2 :> [ NewTmem EXCEPT !.start_x = 29880, !.has_start = TRUE,
                                   !.check_prox = TRUE ] ]

LifeInit == \E b \in LastCharges : Start(LifeWorld(b), DefaultCfg)

LifeNext ==
  \/ TickSnapshot
  \/ TickCommit
  \/ \E tid \in DOMAIN torps, speed \in {TorpMinSpeed, TorpMaxSpeed} :
        SetTorpSpeed(torps[tid].owner, tid, speed)
  \/ \E tid \in DOMAIN torps, hdg \in {-1, 1} :
        SetTorpHeading(torps[tid].owner, tid, hdg)
  \/ \E tid \in DOMAIN torps : Detonate(torps[tid].owner, tid)

\* the loop keeps iterating
LifeSpec ==
  LifeInit /\ [][LifeNext]_vars /\ WF_vars(TickSnapshot) /\ WF_vars(TickCommit)

-----------------------------------------------------------------------------
(* Refuelling: submarines moored under fuelers that are about to despawn,  *)
(* the loop and the calls of the owners.                                   *)

\* a submarine of user 1 at snorkel depth under its fueler, 25 s into the
\* warm-up; the fueler was spawned age quarter seconds ago and gave its
\* first fuel at time used (None: it has not given any)
MooredWorld(age, used) ==
  [ subs |-> 1 :> [ NewSub(1, 5000, 1, 150, 60000) EXCEPT
                      !.throttle = 0, !.fuel = 100000,
                      !.is_snorkeling = TRUE, !.target_depth = SnorkelDepth,
                      !.refuel_active = TRUE, !.refuel_fueler_id = 1,
                      !.refuel_timer = 100 ],
    torps |-> NoRows,
    fuelers |-> 1 :> [ NewFueler(1, 5000, T0 - age) EXCEPT
                         !.empty_since = used,
                         !.fuel = IF used = None THEN @ ELSE @ - 100000 ],
    users |-> [ u \in Users |-> NoDeaths ] ]

\* a submarine of user 2 holding 30 m deep under its fueler, snorkel off
\* and tanks half empty
DeepMooredWorld ==
  [ subs |-> 1 :> [ NewSub(2, 5000, 1, 300, 60000) EXCEPT
                      !.throttle = 0, !.target_depth = 300, !.fuel = 500000 ],
    torps |-> NoRows,
    fuelers |-> 1 :> NewFueler(2, 5000, T0 - 400),
    users |-> [ u \in Users |-> NoDeaths ] ]

\* a fueler spawned well within the last 20 minutes
FuelerYoung == 2000

FuelScenarios ==
  { RefuelWorld, DeepMooredWorld,
    MooredWorld(FuelerMaxAge, None), MooredWorld(FuelerMaxAge - 1, None),
    MooredWorld(FuelerYoung, T0 - FuelerUsedAge),
    MooredWorld(FuelerYoung, T0 - FuelerUsedAge + 1) }

FuelInit == \E world \in FuelScenarios : Start(world, DefaultCfg)

FuelNext ==
  \/ TickSnapshot
  \/ TickCommit
  \/ \E sid \in DOMAIN subs : CallFueler(subs[sid].owner, sid)
  \/ \E sid \in DOMAIN subs : StartRefuel(subs[sid].owner, sid)
  \/ \E sid \in DOMAIN subs : Snorkel(subs[sid].owner, sid)
  \/ \E sid \in DOMAIN subs, thr \in {100} : Control(subs[sid].owner, sid, thr)

FuelSpec == FuelInit /\ [][FuelNext]_vars

-----------------------------------------------------------------------------
(* Fuel transfer: two submarines at the end of their warm-up under one     *)
(* fueler, the loop and the calls of the owners.                           *)

\* what the fueler has left: its full load, and less than two submarines
\* take in one iteration
FuelLeft == { MaxFuelCapacity \div 2, 20000 }

\* the fuel of the second submarine: a tenth of the capacity, and 0.5 short
\* of the capacity
TankLevels == { 100000, MaxFuelCapacity - 5000 }

\* a submarine of user 1 and one of user 2 moored at snorkel depth under the
\* fueler of user 1, both bound to it and one iteration short of the warm-up
TransferWorld(avail, level) ==
  LET moored(u, fuel) ==
        [ NewSub(u, 5000, 1, 150, 99900) EXCEPT
            !.throttle = 0, !.fuel = fuel,
            !.is_snorkeling = TRUE, !.target_depth = SnorkelDepth,
            !.refuel_active = TRUE, !.refuel_fueler_id = 1,
            !.refuel_timer = RefuelWarmup - 1, !.blow_charge = 900 ]
  IN  [ subs |-> 1 :> moored(1, 100000) @@ 2 :> moored(2, level),
        torps |-> NoRows,
        fuelers |-> 1 :> [ NewFueler(1, 5000, T0 - 800) EXCEPT !.fuel = avail ],
        users |-> [ u \in Users |-> NoDeaths ] ]

TransferInit ==
  \E avail \in FuelLeft, level \in TankLevels : Start(TransferWorld(avail, level), DefaultCfg)

TransferNext ==
  \/ TickSnapshot
  \/ TickCommit
  \/ \E sid \in DOMAIN subs : CallFueler(subs[sid].owner, sid)
  \/ \E sid \in DOMAIN subs : StartRefuel(subs[sid].owner, sid)
  \/ \E sid \in DOMAIN subs : Snorkel(subs[sid].owner, sid)

TransferSpec == TransferInit /\ [][TransferNext]_vars

-----------------------------------------------------------------------------
(* Headings: one heading call of an owner, for every whole number of       *)
(* degrees, on a submarine heading east, one heading west and their         *)
(* torpedoes.                                                               *)

\* the compass headings and the turns of the requests
CompassDegs == 0 .. 359
TurnDegs    == -180 .. 180

HeadingInit == Start(WireWorld, DefaultCfg)

HeadingNext ==
  \/ \E sid \in DOMAIN subs, c \in CompassDegs :
        calls = 0 /\ SetSubHeading(subs[sid].owner, sid, c)
  \/ \E tid \in DOMAIN torps, c \in CompassDegs :
        calls = 0 /\ SetTorpTargetHeading(torps[tid].owner, tid, c)
  \/ \E sid \in DOMAIN subs, d \in TurnDegs :
        calls = 0 /\ TurnSub(subs[sid].owner, sid, d)

HeadingSpec == HeadingInit /\ [][HeadingNext]_vars

-----------------------------------------------------------------------------
(* Properties *)

\* the submarines of user u in table ss
OwnedBy(ss, u) == { i \in DOMAIN ss : ss[i].owner = u }

\* the death timestamps of user u that are recorded and less than
\* respawn_cooldown_s old
CoolingDown(u) ==
  { k \in {"last_death_ts", "prev_death_ts"} :
      users[u][k] # 0 /\ now - users[u][k] < cfg.respawn_cooldown_s }

\* this step is the answer to a register_sub call of user u
RegisterStep(u) ==
  calls' = calls + 1 /\ last'.op = "register_sub" /\ last'.user = u

\* C1: between the snapshot of a tick and the commit of that tick, no step
\* other than the commit changes the submarines, torpedoes, fuelers or users
\* of the store (control calls are resolved only between ticks).
C1_TickAtomic ==
  [][ pc = "commit" /\ pc' = "commit"
        => UNCHANGED <<users, subs, torps, fuelers>> ]_vars

\* C2: once the loop is between ticks, the stored battery of every submarine
\* is at most what it started with, less every debit of reload_torpedoes,
\* ping and weather_scan, plus what the ticks recharged: no debit is lost.
C2_NoLostBatteryDebit ==
  pc = "snapshot" =>
    \A i \in DOMAIN subs :
       subs[i].battery <= led.subs[i].bat0 - led.subs[i].spent + led.subs[i].gain

C4_LaunchConsumesOneRound ==
  [][ /\ \A t \in DOMAIN torps' \ DOMAIN torps :
           LET p == torps'[t].parent_sub
           IN  /\ p \in DOMAIN subs /\ p \in DOMAIN subs'
               /\ subs[p].torpedo_ammo >= 1
               /\ subs'[p].torpedo_ammo = subs[p].torpedo_ammo - 1
               /\ DOMAIN torps' \ DOMAIN torps = {t}
      /\ \A i \in DOMAIN subs \cap DOMAIN subs' :
           subs'[i].torpedo_ammo < subs[i].torpedo_ammo
             => \E t \in DOMAIN torps' \ DOMAIN torps : torps'[t].parent_sub = i
      /\ \A i \in DOMAIN subs' :
           Cardinality({ m \in led'.made : m[2] = i })
             = led'.subs[i].ammo0 + led'.subs[i].reloaded - subs'[i].torpedo_ammo
    ]_vars

\* C4 witness: a launch from an empty magazine was refused, after the last
\* round of that submarine had become a torpedo
C4_Witness ==
  /\ last.op = "launch_torpedo" /\ ~last.ok
  /\ last.id \in DOMAIN subs
  /\ subs[last.id].torpedo_ammo = 0
  /\ \E m \in led.made : m[2] = last.id

\* C5: every submarine has 0 <= battery <= 100, 0 <= fuel <= max_fuel_capacity,
\* 0 <= health <= 100 and 0 <= blow_charge <= 1.
C5_SubInRange ==
  \A i \in DOMAIN subs :
     /\ 0 <= subs[i].battery     /\ subs[i].battery <= BatteryFull
     /\ 0 <= subs[i].fuel        /\ subs[i].fuel <= MaxFuelCapacity
     /\ 0 <= subs[i].health      /\ subs[i].health <= HealthFull
     /\ 0 <= subs[i].blow_charge /\ subs[i].blow_charge <= BlowFull

\* C5 witness: a tick has committed an emergency blow that used up the
\* charge of a submarine
C5_Witness ==
  /\ last.op = "tick_commit" /\ last.ok
  /\ \E i \in DOMAIN subs : subs[i].blow_charge = 0 /\ subs[i].blow_end > 0

\* C6: after every tick whose commit succeeds the store holds no submarine
\* with health = 0.
C6_NoWreckAfterTick ==
  (last.op = "tick_commit" /\ last.ok) => \A i \in DOMAIN subs : subs[i].health > 0

\* C7 as claimed: a register_sub call of a user who owns a submarine and has
\* a death timestamp less than respawn_cooldown_s old creates no submarine.
C7_AnyCooldownBlocks ==
  [][ \A u \in Users :
        OwnedBy(subs, u) # {} /\ CoolingDown(u) # {}
          => OwnedBy(subs', u) \subseteq OwnedBy(subs, u) ]_vars

\* C7 amended: a register_sub call of a user who owns n >= 1 submarines,
\* k of whose death timestamps are less than respawn_cooldown_s > 0 old, is
\* refused and creates no submarine exactly when n >= max(0, max_per_user - k).
C7_CooldownTakesSlot ==
  [][ \A u \in Users :
        RegisterStep(u) /\ OwnedBy(subs, u) # {} /\ cfg.respawn_cooldown_s > 0
          => LET n == Cardinality(OwnedBy(subs, u))
                 k == Cardinality(CoolingDown(u))
             IN  IF n >= Max(0, cfg.max_per_user - k)
                 THEN ~last'.ok /\ subs' = subs
                 ELSE last'.ok /\ OwnedBy(subs', u) = OwnedBy(subs, u) \cup {last'.id}
    ]_vars

\* C7 witness: a user with a submarine and a death less than the cooldown
\* ago was refused
C7_Witness ==
  /\ last.op = "register_sub" /\ ~last.ok
  /\ OwnedBy(subs, last.user) # {}
  /\ CoolingDown(last.user) # {}

\* C8: a register_sub call of a user who owns no submarine succeeds and
\* creates exactly one submarine, whatever the user's death timestamps.
C8_NoSubsNoCooldown ==
  [][ \A u \in Users :
        RegisterStep(u) /\ OwnedBy(subs, u) = {}
          => /\ last'.ok
             /\ DOMAIN subs' = DOMAIN subs \cup {last'.id}
             /\ last'.id \notin DOMAIN subs
             /\ subs'[last'.id].owner = u ]_vars

\* C8 witness: a user both of whose deaths are less than the cooldown ago
\* registered their only submarine
C8_Witness ==
  /\ last.op = "register_sub" /\ last.ok
  /\ Cardinality(CoolingDown(last.user)) = 2
  /\ OwnedBy(subs, last.user) = {last.id}

\* C9: each user owns at most max_per_user submarines.
C9_PerUserCap ==
  \A u \in Users : Cardinality(OwnedBy(subs, u)) <= cfg.max_per_user

\* C10: no detonation of a torpedo with a live battery (proximity fuze or
\* command detonation) lowers the health of the torpedo's parent while the
\* parent is within 150 m of the torpedo.
C10_ParentSafe == ~last.hurt

\* C11: whenever a torpedo detonation (in a tick or by /detonate) takes a
\* submarine from health > 0 to 0 and the torpedo's owner has a submarine
\* that is alive after the step, a living submarine of that owner gains a
\* kill in the step; and no submarine whose health is 0 gains a kill.
\* last'.dead holds the pairs <<torpedo owner, submarine killed>> of the step.
C11_KillCredited ==
  [][ /\ \A d \in last'.dead :
           (\E i \in DOMAIN subs' : subs'[i].owner = d[1] /\ subs'[i].health > 0)
             => \E i \in DOMAIN subs \cap DOMAIN subs' :
                   /\ subs'[i].owner = d[1] /\ subs'[i].health > 0
                   /\ subs'[i].kills > subs[i].kills
                   /\ subs'[i].score >= subs[i].score + KillScore
      /\ \A i \in DOMAIN subs \cap DOMAIN subs' :
           subs'[i].kills > subs[i].kills => subs'[i].health > 0
    ]_vars

\* the square of the distance between torpedo tid and submarine i
BlastDist2(tid, i) == Dist2(torps[tid].x, torps[tid].depth, subs[i].x, subs[i].depth)

\* this step is a detonation of torpedo tid: explode_torpedo_in_mem or
\* detonate_torp
BlastStep(tid) ==
  /\ last'.op \in {"explode", "detonate"} /\ last'.ok /\ last'.id = tid
  /\ tid \in DOMAIN torps

\* C12 as stated: a detonation takes from a living submarine at distance d
\* 100 if d <= 60, 75 if 60 < d <= 80, 50 if 80 < d <= 100, 25 if
\* 100 < d <= blast_radius and 0 if d > blast_radius, on both paths.
C12_DamageTable ==
  [][ \A tid \in DOMAIN torps : BlastStep(tid) =>
        \A i \in DOMAIN subs : subs[i].health > 0 =>
          LET d2  == BlastDist2(tid, i)
              r2  == cfg.blast_radius * cfg.blast_radius
              is(x) == subs'[i].health = Max(0, subs[i].health - x)
          IN  /\ d2 <= 600 * 600 => is(10000)
              /\ 600 * 600 < d2 /\ d2 <= 800 * 800 => is(7500)
              /\ 800 * 800 < d2 /\ d2 <= 1000 * 1000 => is(5000)
              /\ 1000 * 1000 < d2 /\ d2 <= r2 => is(2500)
              /\ d2 > r2 => is(0)
    ]_vars

\* C12, amended: a detonation takes nothing from a submarine farther than
\* blast_radius; from a living submarine within blast_radius it takes 100
\* if d <= 60, else 75 if d <= 80, else 50 if d <= 100, else 25 (the health
\* stops at 0), on both paths.  The tiers beyond blast_radius do not exist:
\* with the default blast_radius of 60 every hit takes 100.
C12_DamageTableWithinRadius ==
  [][ \A tid \in DOMAIN torps : BlastStep(tid) =>
        \A i \in DOMAIN subs : subs[i].health > 0 =>
          LET d2  == BlastDist2(tid, i)
              r2  == cfg.blast_radius * cfg.blast_radius
              dmg == IF d2 > r2 THEN 0
                     ELSE IF d2 <= 600 * 600 THEN 10000
                     ELSE IF d2 <= 800 * 800 THEN 7500
                     ELSE IF d2 <= 1000 * 1000 THEN 5000
                     ELSE 2500
          IN  subs'[i].health = Max(0, subs[i].health - dmg)
    ]_vars

\* C12 witness: with blast_radius 120, explode_torpedo_in_mem has taken 75
\* from a submarine exactly 80 m away, off the axes
C12_Witness ==
  /\ last.op = "explode"
  /\ cfg.blast_radius = 1200
  /\ 1 \in DOMAIN subs /\ 1 \in DOMAIN torps
  /\ BlastDist2(1, 1) = 800 * 800 /\ subs[1].depth # torps[1].depth
  /\ subs[1].health = HealthFull - 7500

\* the explosion events of torpedo t on submarine i that were ever enqueued
Booms(t, i) ==
  UNION { { <<u, k>> : k \in { k \in DOMAIN led.log[u] :
                                 /\ led.log[u][k].ev = "explosion"
                                 /\ led.log[u][k].torp = t
                                 /\ led.log[u][k].sub = i } } : u \in Users }

\* C13: at most one explosion event per (torpedo, submarine) pair is ever
\* enqueued, under any interleaving of ticks and /detonate calls, and none
\* is enqueued for damage of a tick whose commit was rolled back
\* (led.phantom holds the hits of the rolled-back ticks).
C13_ExplodesOnce ==
  /\ \A t \in DOMAIN led.owner.torps, i \in DOMAIN led.owner.subs :
        Cardinality(Booms(t, i)) <= 1
  /\ \A p \in led.phantom : Booms(p[1], p[2]) = {}

\* the events of the sonar kinds that were ever enqueued for user u
SonarEvents(u) ==
  { k \in DOMAIN led.log[u] :
      led.log[u][k].ev \in {"contact", "torpedo_contact", "torpedo_ping", "echo"} }

\* the owner of the observer an event names: the submarine of a contact or
\* an echo, the torpedo of a torpedo_contact or a torpedo_ping
ObserverOwner(e) ==
  IF e.ev \in {"torpedo_contact", "torpedo_ping"}
  THEN led.owner.torps[e.torp] ELSE led.owner.subs[e.sub]

\* C14: every contact, torpedo_contact, torpedo_ping and echo event is put
\* on the queue of the user who owns the observing submarine or torpedo the
\* event names, and on no other user's queue.
C14_SonarEventsToOwner ==
  \A u \in Users : \A k \in SonarEvents(u) :
     ObserverOwner(led.log[u][k]) = u

\* two users have each received sonar events, and an event of each of the
\* four kinds has been enqueued
C14_Witness ==
  /\ \E u, v \in Users : u # v /\ SonarEvents(u) # {} /\ SonarEvents(v) # {}
  /\ \A kind \in {"contact", "torpedo_contact", "torpedo_ping", "echo"} :
        \E u \in Users : \E k \in SonarEvents(u) : led.log[u][k].ev = kind

\* the iteration with loop_start T has resolved its echoes
Resolved(T) == T < now \/ (T = now /\ pc = "snapshot")

\* the echo events enqueued for user u by the tick at T for submarine sid
\* and range rng, and the echoes scheduled for them with eta = T
EchoesSent(u, sid, rng, T) ==
  Cardinality({ k \in DOMAIN led.log[u] :
                  /\ led.log[u][k].ev = "echo" /\ led.log[u][k].sub = sid
                  /\ led.log[u][k].val = rng   /\ led.log[u][k].time = T })
EchoesDue(u, sid, rng, T) ==
  Cardinality({ k \in DOMAIN led.echo :
                  /\ led.echo[k].observer_user_id = u /\ led.echo[k].observer_sub_id = sid
                  /\ led.echo[k].rng = rng            /\ led.echo[k].eta = T })

\* the (submarine, range, time) of the echoes scheduled or enqueued for u
EchoKeys(u) ==
  { <<led.echo[k].observer_sub_id, led.echo[k].rng, led.echo[k].eta>> :
      k \in { k \in DOMAIN led.echo : led.echo[k].observer_user_id = u } }
  \cup
  { <<led.log[u][k].sub, led.log[u][k].val, led.log[u][k].time>> :
      k \in { k \in DOMAIN led.log[u] : led.log[u][k].ev = "echo" } }

\* C15 as stated: for each target illuminated by a successful ping no echo
\* is enqueued before its ETA, exactly one echo event is enqueued for the
\* pinging submarine's owner in the first tick whose time is >= ETA, and a
\* scheduled echo is never delivered twice and never lost.
C15_EchoExactlyOnce ==
  \A u \in Users : \A key \in EchoKeys(u) :
     EchoesSent(u, key[1], key[2], key[3])
       = IF Resolved(key[3]) THEN EchoesDue(u, key[1], key[2], key[3]) ELSE 0

\* C15 amended: echo events are enqueued only by the tick that resolves
\* them, the first whose time is >= ETA; that tick removes every due echo
\* from the pending list and enqueues one event for each, in list order, as
\* long as the owner's queue has room; a due echo that finds the queue full
\* is dropped.  No echo is enqueued early or twice.
C15_EchoOnceUnlessFull ==
  [][ /\ \A u \in Users :
           LET new  == SubSeq(led'.log[u], Len(led.log[u]) + 1, Len(led'.log[u]))
               got  == SelectSeq(new, LAMBDA e : e.ev = "echo")
               due  == SelectSeq(pings, LAMBDA p : p.eta <= now /\ p.observer_user_id = u)
               room == IF u \in DOMAIN queues THEN QueueMax - qsize(queues[u])
                       ELSE QueueMax
               n    == IF pc = "commit" /\ pc' = "snapshot"
                       THEN Min(Len(due), Max(room, 0)) ELSE 0
           IN  /\ Len(got) = n
               /\ \A k \in 1..n : /\ got[k].sub = due[k].observer_sub_id
                                   /\ got[k].val = due[k].rng
                                   /\ got[k].time = due[k].eta
      /\ \A k \in DOMAIN pings' :
           \/ pings'[k].eta > now'
           \/ pings'[k].eta = now' /\ pc' = "commit" ]_vars

\* one echo was delivered and another, due in a tick that is over, was
\* dropped at a full queue
C15_Witness ==
  /\ \E u \in Users : \E k \in DOMAIN led.log[u] : led.log[u][k].ev = "echo"
  /\ \E u \in Users : \E key \in EchoKeys(u) :
        /\ Resolved(key[3])
        /\ EchoesSent(u, key[1], key[2], key[3]) < EchoesDue(u, key[1], key[2], key[3])

\* C16: two successful active pings from the same submarine are never less
\* than 5 s apart: a ping within 5 s of the submarine's previous successful
\* ping is rejected (last.since is the time since that previous ping).
C16_PingCooldown ==
  (last.op = "ping" /\ last.ok /\ last.since # None) => last.since >= PingCooldown

\* the events a step appends to the record of user u
NewEvents(u) == SubSeq(led'.log[u], Len(led.log[u]) + 1, Len(led'.log[u]))

\* the active_ping_detected contacts a step enqueues for user u
NewNotices(u) ==
  SelectSeq(NewEvents(u), LAMBDA e : e.ev = "contact" /\ e.type = "active_ping_detected")

\* the step is a successful ping
PingStep == calls' = calls + 1 /\ last'.op = "ping" /\ last'.ok

\* the submarines of user u, the pinging one excepted, at which the snr of
\* the ping of the step exceeds 1.0
Hearers(u) ==
  { i \in DOMAIN subs \ {last'.id} :
      /\ subs[i].owner = u
      /\ ping_snr(last'.id, i, PingBeamDefault, last'.arg) > 1000 }

\* C17 as stated: when a ping succeeds, every other submarine at which the
\* snr of the ping exceeds 1.0 has an active_ping_detected contact enqueued
\* for its owner, and no such event is produced for the pinging submarine
\* or for a submarine whose snr is <= 1.0.
C17_PingHeard ==
  [][ PingStep =>
        \A u \in Users :
           { NewNotices(u)[k].sub : k \in DOMAIN NewNotices(u) } = Hearers(u) ]_vars

\* C17 amended: the contacts go out in list order, one for each such
\* submarine, as long as the owner's queue has room; a contact that finds
\* the queue full is dropped.  None is produced for the pinging submarine,
\* for a submarine whose snr is <= 1.0, or by any step but a successful ping.
C17_PingHeardUnlessFull ==
  [][ \A u \in Users :
        LET heard == IF PingStep THEN InOrder(Hearers(u)) ELSE << >>
            room  == IF u \in DOMAIN queues THEN QueueMax - qsize(queues[u])
                     ELSE QueueMax
            n     == Min(Len(heard), Max(room, 0))
        IN  /\ Len(NewNotices(u)) = n
            /\ \A k \in 1..n : NewNotices(u)[k].sub = heard[k] ]_vars

\* a ping has just succeeded with three submarines in the world: at one the
\* snr exceeds 1.0 and its owner was notified, at another it does not
C17_Witness ==
  /\ last.op = "ping" /\ last.ok
  /\ \E i, j \in DOMAIN subs \ {last.id} :
       /\ ping_snr(last.id, i, PingBeamDefault, last.arg) > 1000
       /\ ping_snr(last.id, j, PingBeamDefault, last.arg) <= 1000
       /\ led.log[subs[i].owner] # << >>
       /\ LET e == led.log[subs[i].owner][Len(led.log[subs[i].owner])]
          IN  e.type = "active_ping_detected" /\ e.sub = i /\ e.time = now

\* the passive contacts a step enqueues for observing submarine o
NewPassive(o) ==
  SelectSeq(NewEvents(led.owner.subs[o]),
            LAMBDA e : e.ev = "contact" /\ e.type = "passive" /\ e.sub = o)

\* C18: in any single tick at most one passive contact event is emitted per
\* observing submarine, contacts on submarines and contacts on torpedoes
\* counted together.
C18_OneContactPerTick ==
  [][ \A o \in DOMAIN led.owner.subs : Len(NewPassive(o)) <= 1 ]_vars

\* the stage of the tick that produces an event: process_explosions_mem,
\* then schedule_passive_contacts, then process_active_pings
Stage(e) ==
  IF e.ev = "explosion" THEN 1
  ELSE IF e.ev \in {"contact", "torpedo_contact", "torpedo_ping"} THEN 2
  ELSE 3

\* the explosion, contact and echo events one tick enqueues for user u
TickEvents(u) ==
  SelectSeq(NewEvents(u), LAMBDA e : e.by = "loop" /\ e.ev # "snapshot")

\* C19: the events one tick produces for a user appear in the user's queue
\* in the order the tick's stages produced them (explosion events, then
\* passive and torpedo contacts and torpedo pings, then the echoes resolved
\* by that tick), and the queue hands them to the stream in that order.
C19_StageOrder ==
  [][ \A u \in Users :
        /\ \A j, k \in DOMAIN TickEvents(u) :
              j < k => Stage(TickEvents(u)[j]) <= Stage(TickEvents(u)[k])
        /\ u \in DOMAIN queues' =>
              /\ Len(queues'[u].evs) <= Len(led'.log[u])
              /\ queues'[u].evs = SubSeq(led'.log[u],
                                         Len(led'.log[u]) - Len(queues'[u].evs) + 1,
                                         Len(led'.log[u])) ]_vars

\* C20: every per-user event queue holds at most 1000 events in every
\* reachable state; a put on a full queue does not block the loop or the
\* handler, drops only the new event and leaves the queued events and their
\* order unchanged.  Every step but a read of the stream keeps what is
\* queued, appends exactly the events it enqueued, and appends nothing to a
\* full queue.
C20_BoundedQueue ==
  /\ [](\A u \in DOMAIN queues : qsize(queues[u]) <= QueueMax)
  /\ [][ \A u \in DOMAIN queues :
           \/ last'.op = "stream_get" /\ last'.user = u
           \/ /\ u \in DOMAIN queues'
              /\ queues'[u].old = queues[u].old
              /\ Len(queues'[u].evs) >= Len(queues[u].evs)
              /\ SubSeq(queues'[u].evs, 1, Len(queues[u].evs)) = queues[u].evs
              /\ SubSeq(queues'[u].evs, Len(queues[u].evs) + 1, Len(queues'[u].evs))
                    = NewEvents(u)
              /\ qsize(queues[u]) = QueueMax => queues'[u].evs = queues[u].evs ]_vars

\* a ping has just succeeded although the queue of a user whose submarine
\* detects it was full: the handler returned and the contact was dropped
C20_Witness ==
  /\ last.op = "ping" /\ last.ok
  /\ \E i \in DOMAIN subs \ {last.id} :
       /\ ping_snr(last.id, i, PingBeamDefault, last.arg) > 1000
       /\ subs[i].owner \in DOMAIN queues
       /\ qsize(queues[subs[i].owner]) = QueueMax
       /\ \A k \in DOMAIN led.log[subs[i].owner] :
            led.log[subs[i].owner][k].type # "active_ping_detected"

\* C21: a stale-write conflict during a tick's commit is caught: the tick's
\* mutations of the world are rolled back as a whole (the durable store is
\* what the API calls committed, as it was before the commit), and every
\* iteration, rolled back or not, ends with the loop ready for its next
\* snapshot and the clock of the iteration unchanged.
C21_TickRollsBack ==
  [][ pc = "commit" /\ pc' # pc =>
        /\ pc' = "snapshot" /\ snap' = NoSnap /\ now' = now
        /\ last'.op = "tick_commit"
        /\ ~last'.ok => /\ users' = users /\ subs' = subs
                        /\ torps' = torps /\ fuelers' = fuelers ]_vars

\* the loop has taken its next snapshot after an iteration whose commit was
\* rolled back
C21_Witness ==
  /\ last.op = "tick_snapshot" /\ pc = "commit"
  /\ led.rolled > 0
  /\ snap.subs = subs /\ subs # NoRows

\* the control fields of a submarine and of a torpedo
SubControls(s) ==
  << s.throttle, s.target_depth, s.hdg, s.is_snorkeling, s.blow_active,
     s.refuel_active, s.torpedo_ammo >>
TorpControls(t) ==
  << t.hdg, t.target_heading, t.target_speed, t.control_mode,
     t.passive_sonar_active, t.active_sonar_enabled >>

\* the handlers addressed to a submarine and to a torpedo that answer with
\* the id they were called with
SubOps  == { "control", "snorkel", "emergency_blow", "reload_torpedoes", "ping",
             "weather_scan", "start_refuel" }
TorpOps == { "detonate", "torp_ping_toggle", "set_torp_speed", "set_torp_heading",
             "set_torp_target_heading", "torp_passive_sonar_toggle" }

\* C22: a control operation addressed to a submarine or torpedo that does
\* not exist or is not owned by the caller is rejected, and a rejected
\* operation leaves all world state unchanged; no call by user u changes a
\* control field of a submarine or torpedo owned by another user, and what
\* a call creates belongs to the caller.
C22_OwnerOnly ==
  [][ calls' = calls + 1 =>
        LET u == last'.user
        IN  /\ ~last'.ok => UNCHANGED <<users, subs, torps, fuelers, queues, pings>>
            /\ (last'.ok /\ last'.op \in SubOps) =>
                  last'.id \in DOMAIN subs /\ subs[last'.id].owner = u
            /\ (last'.ok /\ last'.op \in TorpOps) =>
                  last'.id \in DOMAIN torps /\ torps[last'.id].owner = u
            /\ (last'.ok /\ last'.op = "launch_torpedo") =>
                  /\ torps'[last'.id].owner = u
                  /\ subs[torps'[last'.id].parent_sub].owner = u
            /\ (last'.ok /\ last'.op = "call_fueler") => fuelers'[last'.id].owner = u
            /\ \A i \in DOMAIN subs :
                  subs[i].owner # u =>
                    i \in DOMAIN subs' /\ SubControls(subs'[i]) = SubControls(subs[i])
            /\ \A j \in DOMAIN torps :
                  torps[j].owner # u =>
                    j \in DOMAIN torps' /\ TorpControls(torps'[j]) = TorpControls(torps[j])
      ]_vars

\* a user has just been refused on a torpedo of another user, in the second
\* call of the behaviour or a later one
C22_Witness ==
  /\ calls >= 2
  /\ last.op \in TorpOps /\ ~last.ok
  /\ last.id \in DOMAIN torps /\ torps[last.id].owner # last.user

\* the handlers that work over the wire only
WireOps == { "set_torp_heading", "set_torp_target_heading", "torp_passive_sonar_toggle" }

\* C23: a wire-only operation (set_torp_target_heading, set_torp_heading,
\* torp_passive_sonar_toggle) by the owner of a torpedo whose control mode
\* is free fails with 'wire lost' and leaves the torpedo's heading, target
\* heading and sonar flags unchanged.
C23_WireLost ==
  [][ ( /\ calls' = calls + 1
        /\ last'.op \in WireOps
        /\ last'.id \in DOMAIN torps
        /\ torps[last'.id].owner = last'.user
        /\ torps[last'.id].control_mode = "free" )
      => /\ ~last'.ok
         /\ last'.err = "wire lost"
         /\ last'.id \in DOMAIN torps'
         /\ TorpControls(torps'[last'.id]) = TorpControls(torps[last'.id]) ]_vars

\* the owner of a torpedo that runs free has just been answered 'wire lost'
C23_Witness ==
  /\ last.op \in WireOps /\ last.err = "wire lost"
  /\ last.id \in DOMAIN torps
  /\ torps[last.id].owner = last.user /\ torps[last.id].control_mode = "free"

\* C24: a torpedo launched with range budget R (its wire_length: the range of
\* the call, at most max_range) is removed once it is farther than R from
\* where it was launched: between ticks no torpedo of the store is farther
\* than R plus one tick's travel from its launch point.
C24_RangeBudget ==
  pc = "snapshot" =>
    \A tid \in DOMAIN torps \cap DOMAIN led.from :
      distance(torps[tid].x, led.from[tid])
        <= torps[tid].wire_length + PerTick(TorpMaxSpeed)

\* the fuelers of user u
FuelersOf(u) == { f \in DOMAIN fuelers : fuelers[f].owner = u }

\* C25: every user owns at most one fueler in every state, whatever the
\* order of the call_fueler calls and the ticks, and a call_fueler of a user
\* who owns one is rejected and leaves the fuelers as they are.
C25_OneFuelerPerUser ==
  /\ [](\A u \in Users : Cardinality(FuelersOf(u)) <= 1)
  /\ [][ (calls' = calls + 1 /\ last'.op = "call_fueler"
            /\ FuelersOf(last'.user) # {})
          => ~last'.ok /\ fuelers' = fuelers ]_vars

\* a user called a fueler, and the same user's next call_fueler, made while
\* the loop was between its snapshot and its commit, was rejected
C25_Witness ==
  /\ last.op = "call_fueler" /\ ~last.ok /\ pc = "commit"
  /\ last.id \in DOMAIN subs /\ subs[last.id].owner = last.user
  /\ \E f \in FuelersOf(last.user) : fuelers[f].spawned_at >= T0

\* the despawn rule of the fuelers, for a fueler that gave its first fuel at
\* time used (None: never), at the commit of time t
Despawns(f, used, t) ==
  \/ t - f.spawned_at > FuelerMaxAge
  \/ used # None /\ t - used > FuelerUsedAge

\* C26: a successful commit removes exactly the fuelers that were spawned
\* more than 20 minutes before or gave their first fuel more than 5 minutes
\* before; no other step removes a fueler; and the time of the first fuel
\* transfer, once set, stays as it is.
C26_FuelerDespawn ==
  [][ /\ \A f \in DOMAIN fuelers \ DOMAIN fuelers' :
           /\ last'.op = "tick_commit" /\ last'.ok
           /\ Despawns(fuelers[f], fuelers[f].empty_since, now)
      /\ \A f \in DOMAIN fuelers \cap DOMAIN fuelers' :
           /\ (last'.op = "tick_commit" /\ last'.ok)
                => ~Despawns(fuelers'[f], fuelers'[f].empty_since, now)
           /\ fuelers[f].empty_since # None
                => fuelers'[f].empty_since = fuelers[f].empty_since ]_vars

\* the second commit has just removed the fueler of the initial store, which
\* the first commit had kept: the submarine under it was still warming up in
\* the second iteration
C26_Witness ==
  /\ last.op = "tick_commit" /\ last.ok /\ now = T0 + 2
  /\ ids.fuelers = 1 /\ fuelers = NoRows
  /\ 1 \in DOMAIN subs /\ subs[1].refuel_active /\ subs[1].refuel_timer > 100

\* C27: a submarine is given fuel only by a step that finds it bound with at
\* least 120 s of warm-up on its refuel_timer, that step's own quarter second
\* included; a start_refuel call leaves the timer at 0, so that no fuel
\* arrives in less than 120 s after it.
C27_WarmupBeforeFuel ==
  [][ /\ \A i \in DOMAIN subs \cap DOMAIN subs' :
           subs'[i].fuel > subs[i].fuel
             => /\ subs[i].refuel_active
                /\ subs[i].refuel_timer + 1 >= RefuelWarmup
      /\ (calls' = calls + 1 /\ last'.op = "start_refuel" /\ last'.ok)
           => subs'[last'.id].refuel_timer = 0 ]_vars

\* the fuelers with fuel within 50 m of submarine s that s is bound to
BoundInRange(s, fs) ==
  { f \in DOMAIN fs :
      /\ s.refuel_fueler_id \in {None, f}
      /\ fs[f].fuel > 0
      /\ Within3d(s.x, s.depth, fs[f].x, fs[f].depth, RefuelRange) }

\* C28: a tick that starts with a refuelling submarine for which no fueler
\* with fuel, bound to it, is within 50 m (there may be no fueler at all)
\* cancels the refuel: its commit leaves refuel_active false, no fueler
\* bound and the timer at 0.
C28_CancelWithoutFueler ==
  [][ (pc = "commit" /\ last'.op = "tick_commit" /\ last'.ok)
        => \A i \in DOMAIN snap.subs \cap DOMAIN subs' :
             ( /\ snap.subs[i].refuel_active
               /\ subs[i] = snap.subs[i]
               /\ BoundInRange(snap.subs[i], snap.fuelers) = {} )
             => /\ ~subs'[i].refuel_active
                /\ subs'[i].refuel_fueler_id = None
                /\ subs'[i].refuel_timer = 0 ]_vars

\* C29: no step turns is_snorkeling of a stored submarine from false to true
\* while the submarine is deeper than snorkel_depth, and a call that would
\* is rejected.
C29_NoSnorkelWhenDeep ==
  [][ \A i \in DOMAIN subs \cap DOMAIN subs' :
        (~subs[i].is_snorkeling /\ subs[i].depth > SnorkelDepth)
          => ~subs'[i].is_snorkeling ]_vars

\* this step is an accepted launch_torpedo from submarine i
LaunchStep(i) ==
  /\ calls' = calls + 1 /\ last'.op = "launch_torpedo" /\ last'.ok
  /\ torps'[last'.id].parent_sub = i

\* this step is an accepted reload_torpedoes on submarine i, and the step
\* before it was an accepted launch_torpedo from i
ReloadAfterLaunch(i) ==
  /\ last.op = "launch_torpedo" /\ last.ok
  /\ last.id \in DOMAIN torps /\ torps[last.id].parent_sub = i
  /\ calls' = calls + 1 /\ last'.op = "reload_torpedoes" /\ last'.ok
  /\ last'.id = i

\* C30: an accepted launch_torpedo takes one round and no battery, and an
\* accepted reload_torpedoes that follows it at once gives one round back for
\* reload_battery_cost_per_torp of battery: together they leave torpedo_ammo
\* as it was and the battery lower by exactly that cost.
C30_LaunchReload ==
  [][ \A i \in DOMAIN subs :
        /\ LaunchStep(i)
             => /\ subs'[i].torpedo_ammo = subs[i].torpedo_ammo - 1
                /\ subs'[i].battery = subs[i].battery
        /\ ReloadAfterLaunch(i)
             => /\ subs'[i].torpedo_ammo = subs[i].torpedo_ammo + 1
                /\ subs'[i].battery = subs[i].battery - ReloadCost ]_vars

\* C30, amended: with count = 1 the reload that follows the launch gives one
\* round back for one cost, for every number of rounds before the launch;
\* without a count it fills the magazine and costs as many times
\* reload_battery_cost_per_torp as it loads rounds, which is one round only
\* when the magazine was full before the launch.
C30_LaunchReloadOne ==
  [][ \A i \in DOMAIN subs :
        /\ LaunchStep(i)
             => /\ subs'[i].torpedo_ammo = subs[i].torpedo_ammo - 1
                /\ subs'[i].battery = subs[i].battery
        /\ ReloadAfterLaunch(i)
             => LET n == IF last'.arg = None
                         THEN MagazineSize - subs[i].torpedo_ammo ELSE 1
                IN  /\ subs'[i].torpedo_ammo = subs[i].torpedo_ammo + n
                    /\ subs'[i].battery = subs[i].battery - ReloadCost * n ]_vars

\* before any tick, a launch from a magazine that was not full and then a
\* reload of one round: the magazine holds what it held before the launch
C30_Witness ==
  /\ now = T0 /\ pc = "snapshot" /\ calls = 2
  /\ last.op = "reload_torpedoes" /\ last.ok /\ last.arg = 1
  /\ last.id \in DOMAIN subs
  /\ subs[last.id].torpedo_ammo = led.subs[last.id].ammo0
  /\ subs[last.id].torpedo_ammo < MagazineSize
  /\ \E m \in led.made : m[2] = last.id

\* the target heading a heading call was made on
TargetOf(l) ==
  IF l.op = "set_torp_target_heading" THEN torps[l.id].target_heading
  ELSE subs[l.id].target_heading

\* C31: after an accepted set_sub_heading or set_torp_target_heading with
\* compass heading c, the stored target is (90 - c) mod 360 and the
\* compass_target of the response is c again.
C31_CompassRoundTrip ==
  (last.op \in {"set_sub_heading", "set_torp_target_heading"} /\ last.ok)
    => /\ TargetOf(last) = (90 - last.arg) % 360
       /\ last.out = last.arg % 360

\* C38: after an accepted turn_sub with turn_deg = d the target heading of
\* the submarine is its heading rotated by d: it equals heading + d modulo
\* 360 (the call leaves the heading itself as it was).
C38_TurnIsRelative ==
  (last.op = "turn_sub" /\ last.ok)
    => subs[last.id].target_heading % 360
         = (heading_deg(subs[last.id]) + last.arg) % 360

\* the owner of what the passive contact e heard
HeardOwner(e) ==
  IF e.tgt[1] = "sub" THEN led.owner.subs[e.tgt[2]] ELSE led.owner.torps[e.tgt[2]]

\* C32: every passive contact that was enqueued, of an observing submarine
\* or of a torpedo, heard a submarine or a torpedo of another user than the
\* observer's.
C32_ForeignTargetsOnly ==
  \A u \in Users :
    \A k \in DOMAIN led.log[u] :
      LET e == led.log[u][k]
      IN  (e.ev \in {"contact", "torpedo_contact"} /\ e.type = "passive")
            => HeardOwner(e) # ObserverOwner(e)

\* C33: a rejected ping changes nothing: the battery and every other column
\* of every row are as before, no echo is scheduled and no event is
\* enqueued.
C33_RejectedPingNoEffect ==
  [][ (calls' = calls + 1 /\ last'.op = "ping" /\ ~last'.ok)
        => /\ UNCHANGED <<users, subs, torps, fuelers, pings, queues>>
           /\ led'.log = led.log /\ led'.echo = led.echo ]_vars

\* the owner's ping was rejected for its cost: the battery is above
\* min_battery and below the cost of the ping
C33_Witness ==
  /\ last.op = "ping" /\ ~last.ok
  /\ last.id \in DOMAIN subs /\ subs[last.id].owner = last.user
  /\ subs[last.id].battery >= PingMinBattery
  /\ subs[last.id].battery < ping_cost(PingBeamDefault, PingRangeDefault)

\* C34: after every iteration of the loop, every torpedo the iteration
\* processed that is still in wire mode has a parent submarine in the store
\* within wire_length of it, whatever range it was launched with.
C34_WireWithinLength ==
  [][ (pc = "commit" /\ last'.op = "tick_commit" /\ last'.ok)
        => \A tid \in DOMAIN torps' \cap DOMAIN snap.torps :
             torps'[tid].control_mode = "wire"
               => /\ torps'[tid].parent_sub \in DOMAIN subs'
                  /\ distance(torps'[tid].x, subs'[torps'[tid].parent_sub].x)
                       <= torps'[tid].wire_length ]_vars

\* C35: a torpedo enters the store in wire mode, and a torpedo in free mode
\* stays in free mode at every step for as long as it is in the store.
C35_ModeMonotonic ==
  [][ /\ \A tid \in DOMAIN torps' \ DOMAIN torps : torps'[tid].control_mode = "wire"
      /\ \A tid \in DOMAIN torps \cap DOMAIN torps' :
            torps[tid].control_mode = "free" => torps'[tid].control_mode = "free" ]_vars

\* a torpedo launched since the start has lost its wire and is still free
\* after the second iteration of the loop; its parent is in the store
C35_Witness ==
  /\ last.op = "tick_commit" /\ last.ok /\ now = T0 + 2
  /\ \E tid \in DOMAIN torps \cap DOMAIN led.from :
        /\ torps[tid].control_mode = "free"
        /\ torps[tid].parent_sub \in DOMAIN subs

\* C36: while the loop iterates and its commits succeed, every torpedo is
\* removed from the store in the end, whatever its owner orders: a torpedo
\* that an iteration leaves in the store has less charge than the iteration
\* found, and the torpedoes at the end of their charge or range are gone
\* after the iterations that follow.
C36_TorpedoesRemoved ==
  /\ <>(DOMAIN torps = {} \/ led.rolled > 0)
  /\ [][ (pc = "commit" /\ last'.op = "tick_commit" /\ last'.ok)
           => \A tid \in DOMAIN torps' \cap DOMAIN snap.torps :
                /\ torps'[tid].battery < snap.torps[tid].battery
                /\ torps'[tid].battery > 0 ]_vars

\* both torpedoes are gone after the second iteration, every commit went
\* through and the owners had sent two orders
C36_Witness ==
  /\ DOMAIN torps = {} /\ led.rolled = 0
  /\ last.op = "tick_commit" /\ last.ok /\ now = T0 + 2 /\ calls >= 2

\* the fuel in the rows S of a table
RECURSIVE FuelOf(_, _)
FuelOf(rows, S) ==
  IF S = {} THEN 0 ELSE rows[MinOf(S)].fuel + FuelOf(rows, S \ {MinOf(S)})

\* C37: the fuel of a fueler stays within 0 .. max_fuel, and an iteration
\* of the loop adds to the submarines exactly what it takes from the
\* fuelers (on top of what update_sub made of their fuel), never more than
\* the fuelers had.
C37_FuelConserved ==
  /\ [](\A f \in DOMAIN fuelers :
          fuelers[f].fuel >= 0 /\ fuelers[f].fuel <= fuelers[f].max_fuel)
  /\ [][ ( /\ pc = "commit" /\ last'.op = "tick_commit" /\ last'.ok
           /\ DOMAIN snap.subs \subseteq DOMAIN subs'
           /\ DOMAIN snap.fuelers \subseteq DOMAIN fuelers' )
          => LET S    == DOMAIN snap.subs
                 F    == DOMAIN snap.fuelers
                 gain == FuelOf(subs', S) - FuelOf(moved(snap, tmem, now).subs, S)
                 loss == FuelOf(snap.fuelers, F) - FuelOf(fuelers', F)
             IN  gain = loss /\ gain >= 0 /\ gain <= FuelOf(snap.fuelers, F) ]_vars

\* an iteration has just drained a fueler that held more than one
\* submarine takes in an iteration: two submarines drew from it
C37_Witness ==
  /\ last.op = "tick_commit" /\ last.ok
  /\ \E f \in DOMAIN fuelers :
        /\ fuelers[f].fuel = 0 /\ fuelers[f].empty_since = now
        /\ \E sid \in DOMAIN subs :
              subs[sid].refuel_active /\ subs[sid].refuel_fueler_id = f
        /\ \E sid \in DOMAIN subs :
              ~subs[sid].refuel_active /\ subs[sid].refuel_timer = 0

\* the snapshots a step enqueues for user u
NewSnapshots(u) == SelectSeq(NewEvents(u), LAMBDA e : e.ev = "snapshot")

\* C39: a snapshot enqueued for user u lists only submarines and torpedoes
\* that u owns and that are in the store when it is enqueued: none that the
\* commit of the same iteration removed.
C39_SnapshotOwnLiveRows ==
  [][ \A u \in Users :
        \A k \in 1..Len(NewSnapshots(u)) :
          LET rows == NewSnapshots(u)[k].rows
          IN  /\ \A i \in rows[1] : led'.owner.subs[i] = u
              /\ \A i \in rows[2] : led'.owner.torps[i] = u
              /\ rows[1] \subseteq DOMAIN subs'
              /\ rows[2] \subseteq DOMAIN torps' ]_vars

====
